---- MODULE Spec2Model ----
(***************************************************************************)
(* Model of the selection engine of Rand-1-selector: run_selection and the *)
(* SQLite functions it calls (src/sampler_logic.py, the live revision that *)
(* starts at line 298; lines 1-297 are a commented-out older revision),    *)
(* and of the part of main (src/main.py) that checks the configuration and *)
(* the input file, calls run_selection and exits.                          *)
(*                                                                         *)
(* Each SQLite statement group that the code runs in its own connection    *)
(* (setup_database, get_previously_selected_policies, log_attempt,         *)
(* save_selected_apps, the UPDATE of the log) is one atomic step; what the *)
(* code does between two of them touches only locals and is folded into    *)
(* the step before it.  A sqlite3.Error that the code catches is an        *)
(* outcome the environment may choose.                                     *)
(*                                                                         *)
(* Strings keep the texts of the source.  str.strip, str.lower,            *)
(* pd.to_datetime and strftime are tabulated on the strings the model      *)
(* draws its inputs from.  Rates are exact rationals n / RateScale, a      *)
(* random.random() draw is d / DrawScale with d in 0 .. DrawScale - 1.     *)
(* The columns xml_blob and branch_name are carried by the code but never  *)
(* read nor stored; the model keeps them only as column names.             *)
(***************************************************************************)
EXTENDS Integers, Sequences, FiniteSets, TLC

\* ------------------------------------------------------------------ bounds

\* invocations of run_selection in one behaviour
MaxRuns == 2
\* a draw of random.random() is d / DrawScale, d \in 0 .. DrawScale - 1
DrawScale == 2
\* a rate is n / RateScale
RateScale == 2

\* the processes that may run run_selection against the same database
Procs == {"p1", "p2"}

\* --------------------------------------------------------------- constants

REQUIRED_INPUT_COLUMNS ==
    <<"id", "protected_class", "xml_blob",
      "application_receive_date", "advisor_id", "branch_name">>

SELECTED_APP_DB_COLUMNS ==
    <<"selection_log_id", "policy_id", "advisor_id", "application_receive_date">>

\* log_id = None
NoLogId == 0

\* ----------------------------------------------------------------- strings

\* str.strip() on the strings of the model
Strip(s) ==
    CASE s = " a" -> "a"
      [] s = "a " -> "a"
      [] s = " "  -> ""
      [] s = " TRUE" -> "TRUE"
      [] OTHER -> s

\* str.lower() on the strings of the model
Lower(s) ==
    CASE s = "TRUE" -> "true"
      [] s = "Yes"  -> "yes"
      [] s = "No"   -> "no"
      [] s = "F"    -> "f"
      [] s = "Maybe" -> "maybe"
      [] OTHER -> s

\* flag_map of run_selection
flag_map ==
    [k \in {"true", "1", "yes", "t", "false", "0", "no", "f", ""} |->
        IF k \in {"true", "1", "yes", "t"} THEN 1 ELSE 0]

\* .str.lower().map(flag_map).fillna(0).astype(int): a token that flag_map
\* does not hold maps to NaN, and fillna(0) turns the NaN into 0
protected_class_numeric(token) ==
    IF Lower(token) \in DOMAIN flag_map THEN flag_map[Lower(token)] ELSE 0

\* ------------------------------------------------------------------- dates

\* Days are counted from pd.Timestamp('2000-01-01'); tod = 0 is midnight.
NaT == [isnull |-> TRUE, day |-> 0, tod |-> 0]

Timestamp(d, t) == [isnull |-> FALSE, day |-> d, tod |-> t]

\* min_allowed_date = pd.Timestamp('2000-01-01')
MinAllowedDay == 0
\* the day of the run: pd.Timestamp.now().normalize() is midnight of it
TodayDay == 2

\* pd.to_datetime(s, errors='coerce') on the strings of the model
to_datetime(s) ==
    CASE s = "1999-12-31"          -> Timestamp(0 - 1, 0)
      [] s = "2000-01-01"          -> Timestamp(MinAllowedDay, 0)
      [] s = "2010-06-15"          -> Timestamp(1, 0)
      [] s = "06/15/2010"          -> Timestamp(1, 0)
      [] s = "2010-06-15 08:30:00" -> Timestamp(1, 1)
      [] s = "today"               -> Timestamp(TodayDay, 0)
      [] s = "today 12:00:00"      -> Timestamp(TodayDay, 1)
      [] s = "tomorrow"            -> Timestamp(TodayDay + 1, 0)
      [] OTHER                     -> NaT

\* .dt.strftime('%Y-%m-%d')
strftime(ts) ==
    CASE ts.day = 0 - 1        -> "1999-12-31"
      [] ts.day = MinAllowedDay -> "2000-01-01"
      [] ts.day = 1            -> "2010-06-15"
      [] ts.day = TodayDay     -> "today"
      [] OTHER                 -> "tomorrow"

\* a > b on Timestamps
TsGreater(a, b) == a.day > b.day \/ (a.day = b.day /\ a.tod > b.tod)

\* -------------------------------------------------------------- data frames

\* an input that is not a pandas DataFrame
NotADataFrame == [is_dataframe |-> FALSE, columns |-> {}, rows |-> <<>>]

DataFrame(cols, rows) == [is_dataframe |-> TRUE, columns |-> cols, rows |-> rows]

AllColumns == {REQUIRED_INPUT_COLUMNS[i] : i \in DOMAIN REQUIRED_INPUT_COLUMNS}

Row(id, pclass, date, advisor) ==
    [id |-> id, protected_class |-> pclass,
     application_receive_date |-> date, advisor_id |-> advisor]

\* mutant: no DataFrame counts as empty
IsEmptyFrame_Never(df) == FALSE

\* input_df.empty: no row or no column
IsEmptyFrame(df) == Len(df.rows) = 0 \/ df.columns = {}

\* missing_cols = [col for col in REQUIRED_INPUT_COLUMNS if col not in columns]
missing_cols(df) ==
    SelectSeq(REQUIRED_INPUT_COLUMNS, LAMBDA c : c \notin df.columns)

\* all_apps_df[col] = all_apps_df[col].astype(str).str.strip()
StripRows(rows) ==
    [i \in DOMAIN rows |->
        Row(Strip(rows[i].id), Strip(rows[i].protected_class),
            Strip(rows[i].application_receive_date), Strip(rows[i].advisor_id))]

\* ------------------------------------------------------------- validation

\* all_apps_df['id'].duplicated(): a row whose id occurred in an earlier row
duplicated(rows, j) == \E i \in 1 .. j - 1 : rows[i].id = rows[j].id

\* all_apps_df[all_apps_df['id'].duplicated()]['id'].unique()
RECURSIVE DuplicateIds(_, _, _)
DuplicateIds(rows, j, seen) ==
    IF j > Len(rows) THEN seen
    ELSE IF duplicated(rows, j)
            /\ ~ \E k \in DOMAIN seen : seen[k] = rows[j].id
         THEN DuplicateIds(rows, j + 1, Append(seen, rows[j].id))
         ELSE DuplicateIds(rows, j + 1, seen)

\* today = pd.Timestamp.now().normalize()
today == Timestamp(TodayDay, 0)

min_allowed_date == Timestamp(MinAllowedDay, 0)

\* invalid_dates = dt_obj.isnull() & application_receive_date.ne('')
invalid_date(row) ==
    to_datetime(row.application_receive_date).isnull
    /\ row.application_receive_date # ""

valid_dates_mask(row) == ~ to_datetime(row.application_receive_date).isnull

Cond(b, e) == IF b THEN <<e>> ELSE <<>>

\* mutant: validation stops at the first violation it finds
validation_errors_FirstOnly(rows) ==
    LET N == DOMAIN rows
        all ==
            Cond(\E i \in N : rows[i].id = "", "Empty 'id' found.")
            \o Cond(\E j \in N : duplicated(rows, j), "Duplicate id(s) in input")
            \o Cond(\E i \in N : invalid_date(rows[i]),
                    "Unparseable 'application_receive_date'")
            \o Cond(\E i \in N :
                      /\ valid_dates_mask(rows[i])
                      /\ TsGreater(to_datetime(rows[i].application_receive_date),
                                   today),
                    "Future 'application_receive_date' found.")
            \o Cond(\E i \in N :
                      /\ valid_dates_mask(rows[i])
                      /\ TsGreater(min_allowed_date,
                                   to_datetime(rows[i].application_receive_date)),
                    "'application_receive_date' before 2000-01-01 found.")
    IN IF all = <<>> THEN <<>> ELSE <<Head(all)>>

\* mutant: the range of a parsed date is not checked
validation_errors_NoDateRange(rows) ==
    LET N == DOMAIN rows IN
    Cond(\E i \in N : rows[i].id = "", "Empty 'id' found.")
    \o Cond(\E j \in N : duplicated(rows, j), "Duplicate id(s) in input")
    \o Cond(\E i \in N : invalid_date(rows[i]),
            "Unparseable 'application_receive_date'")

\* The texts appended to validation_errors, in the order of the code, for the
\* stripped rows.
validation_errors(rows) ==
    LET N == DOMAIN rows IN
    Cond(\E i \in N : rows[i].id = "", "Empty 'id' found.")
    \o Cond(\E j \in N : duplicated(rows, j), "Duplicate id(s) in input")
    \o Cond(\E i \in N :
              protected_class_numeric(rows[i].protected_class) \notin {0, 1},
            "Invalid 'protected_class' values (must be 0 or 1 after conversion).")
    \o Cond(\E i \in N : invalid_date(rows[i]),
            "Unparseable 'application_receive_date'")
    \o Cond(\E i \in N :
              /\ valid_dates_mask(rows[i])
              /\ TsGreater(to_datetime(rows[i].application_receive_date), today),
            "Future 'application_receive_date' found.")
    \o Cond(\E i \in N :
              /\ valid_dates_mask(rows[i])
              /\ TsGreater(min_allowed_date,
                           to_datetime(rows[i].application_receive_date)),
            "'application_receive_date' before 2000-01-01 found.")

\* The rows after validation: protected_class_numeric added, a valid date
\* reformatted by strftime, an unparseable or empty one set to ''.
NormalizeRows(rows) ==
    [i \in DOMAIN rows |->
        [id |-> rows[i].id,
         protected_class |-> rows[i].protected_class,
         protected_class_numeric |->
             protected_class_numeric(rows[i].protected_class),
         application_receive_date |->
             IF valid_dates_mask(rows[i])
             THEN strftime(to_datetime(rows[i].application_receive_date))
             ELSE "",
         advisor_id |-> rows[i].advisor_id]]

\* ------------------------------------------------------------ probability

\* mutant: the quotient is used as it is, without the clamp to [0, 1]
derived_probability_for_unprotected_NoClamp(target, ratio) == <<target, ratio>>

\* A probability is the rational <<numerator, denominator>>.
\* derived = target_overall_rate / estimated_unprotected_ratio, capped at 1.0
\* when above it and set to 0.0 when negative.
derived_probability_for_unprotected(target, ratio) ==
    IF target > ratio THEN <<1, 1>>
    ELSE IF target < 0 THEN <<0, 1>>
    ELSE <<target, ratio>>

\* mutant: a probability of 1.0 is taken for no probability at all
passes_probability_gate_BelowOneOnly(draw, p) ==
    p[1] > 0 /\ p[1] < p[2] /\ draw * p[2] < p[1] * DrawScale

\* derived_probability_for_unprotected > 0 and random.random() < derived...
passes_probability_gate(draw, p) ==
    p[1] > 0 /\ draw * p[2] < p[1] * DrawScale

\* --------------------------------------------------------- selection loop

\* The locals the loop updates.
LoopStart(prev) ==
    [previously_selected_ids_from_db |-> prev,
     selected_policies_for_this_batch_rows |-> <<>>,
     num_protected_skipped |-> 0,
     num_previously_selected_skipped |-> 0,
     num_passed_probability_gate |-> 0,
     num_selected_for_this_batch |-> 0]

\* final_selected_df keeps the columns of REQUIRED_INPUT_COLUMNS
InputColumnsOf(row) ==
    Row(row.id, row.protected_class, row.application_receive_date,
        row.advisor_id)

\* mutant: the loop without its protected-class check
loop_body_NoProtectedCheck(policy_row, draw, p, acc) ==
    IF policy_row.id \in acc.previously_selected_ids_from_db
    THEN [acc EXCEPT !.num_previously_selected_skipped = @ + 1]
    ELSE IF passes_probability_gate(draw, p)
    THEN [acc EXCEPT
            !.num_passed_probability_gate = @ + 1,
            !.selected_policies_for_this_batch_rows =
                Append(@, InputColumnsOf(policy_row)),
            !.num_selected_for_this_batch = @ + 1,
            !.previously_selected_ids_from_db = @ \cup {policy_row.id}]
    ELSE acc

\* mutant: the loop without its history check
loop_body_NoHistoryCheck(policy_row, draw, p, acc) ==
    IF policy_row.protected_class_numeric = 1
    THEN [acc EXCEPT !.num_protected_skipped = @ + 1]
    ELSE IF passes_probability_gate(draw, p)
    THEN [acc EXCEPT
            !.num_passed_probability_gate = @ + 1,
            !.selected_policies_for_this_batch_rows =
                Append(@, InputColumnsOf(policy_row)),
            !.num_selected_for_this_batch = @ + 1,
            !.previously_selected_ids_from_db = @ \cup {policy_row.id}]
    ELSE acc

\* mutant: the loop without line 551: a chosen id is not added to the set
\* the history check reads
loop_body_NoWorkingHistory(policy_row, draw, p, acc) ==
    IF policy_row.protected_class_numeric = 1
    THEN [acc EXCEPT !.num_protected_skipped = @ + 1]
    ELSE IF policy_row.id \in acc.previously_selected_ids_from_db
    THEN [acc EXCEPT !.num_previously_selected_skipped = @ + 1]
    ELSE IF passes_probability_gate(draw, p)
    THEN [acc EXCEPT
            !.num_passed_probability_gate = @ + 1,
            !.selected_policies_for_this_batch_rows =
                Append(@, InputColumnsOf(policy_row)),
            !.num_selected_for_this_batch = @ + 1]
    ELSE acc

\* mutant: the history check comes before the protected-class check
loop_body_HistoryFirst(policy_row, draw, p, acc) ==
    IF policy_row.id \in acc.previously_selected_ids_from_db
    THEN [acc EXCEPT !.num_previously_selected_skipped = @ + 1]
    ELSE IF policy_row.protected_class_numeric = 1
    THEN [acc EXCEPT !.num_protected_skipped = @ + 1]
    ELSE IF passes_probability_gate(draw, p)
    THEN [acc EXCEPT
            !.num_passed_probability_gate = @ + 1,
            !.selected_policies_for_this_batch_rows =
                Append(@, InputColumnsOf(policy_row)),
            !.num_selected_for_this_batch = @ + 1,
            !.previously_selected_ids_from_db = @ \cup {policy_row.id}]
    ELSE acc

\* mutant: the protected-class branch lacks its continue, so a protected
\* row goes on to the history check and the gate
loop_body_NoContinue(policy_row, draw, p, acc) ==
    LET acc1 == IF policy_row.protected_class_numeric = 1
                THEN [acc EXCEPT !.num_protected_skipped = @ + 1]
                ELSE acc
    IN IF policy_row.id \in acc1.previously_selected_ids_from_db
       THEN [acc1 EXCEPT !.num_previously_selected_skipped = @ + 1]
       ELSE IF passes_probability_gate(draw, p)
       THEN [acc1 EXCEPT
               !.num_passed_probability_gate = @ + 1,
               !.selected_policies_for_this_batch_rows =
                   Append(@, InputColumnsOf(policy_row)),
               !.num_selected_for_this_batch = @ + 1,
               !.previously_selected_ids_from_db = @ \cup {policy_row.id}]
       ELSE acc1

\* one pass of the body of "for index, policy_row in all_apps_df.iterrows()"
loop_body(policy_row, draw, p, acc) ==
    IF policy_row.protected_class_numeric = 1
    THEN [acc EXCEPT !.num_protected_skipped = @ + 1]
    ELSE IF policy_row.id \in acc.previously_selected_ids_from_db
    THEN [acc EXCEPT !.num_previously_selected_skipped = @ + 1]
    ELSE IF passes_probability_gate(draw, p)
    THEN [acc EXCEPT
            !.num_passed_probability_gate = @ + 1,
            !.selected_policies_for_this_batch_rows =
                Append(@, InputColumnsOf(policy_row)),
            !.num_selected_for_this_batch = @ + 1,
            !.previously_selected_ids_from_db = @ \cup {policy_row.id}]
    ELSE acc

\* mutant: the historical branch leaves the loop (break) instead of going
\* on with the next row (continue)
RECURSIVE selection_loop_BreakOnHistory(_, _, _, _, _)
selection_loop_BreakOnHistory(rows, i, draws, p, acc) ==
    IF i > Len(rows) THEN acc
    ELSE IF /\ rows[i].protected_class_numeric # 1
            /\ rows[i].id \in acc.previously_selected_ids_from_db
         THEN loop_body(rows[i], draws[i], p, acc)
         ELSE selection_loop_BreakOnHistory(rows, i + 1, draws, p,
                                            loop_body(rows[i], draws[i], p, acc))

RECURSIVE selection_loop(_, _, _, _, _)
selection_loop(rows, i, draws, p, acc) ==
    IF i > Len(rows) THEN acc
    ELSE selection_loop(rows, i + 1, draws, p,
                        loop_body(rows[i], draws[i], p, acc))

\* ------------------------------------------------------------------ state

VARIABLES
    pc,                     \* where each process is in run_selection
    run,                    \* the arguments and locals of each process's call
    tables_exist,           \* setup_database has created both tables
    selection_log,          \* the rows of table selection_log, by log_id
    selected_applications,  \* the rows of table selected_applications
    clock,                  \* calls of run_selection so far
    main_exit               \* how main ended for each process, if it did

vars ==
    <<pc, run, tables_exist, selection_log, selected_applications, clock,
      main_exit>>

\* main has not called sys.exit / main has called sys.exit(code) after
\* logging the text
Running == [exited |-> FALSE, code |-> 0, logged |-> ""]

Exited(code, logged) == [exited |-> TRUE, code |-> code, logged |-> logged]

\* message: the text that starts it, and what the code formats into it
Message(text, detail, ids, counts) ==
    [text |-> text, detail |-> detail, ids |-> ids, counts |-> counts]

Args(df, batch_id, target, ratio) ==
    [input_df |-> df, batch_id |-> batch_id,
     target_overall_rate |-> target, estimated_unprotected_ratio |-> ratio]

\* the locals of run_selection as lines 443-451 set them; log_error records
\* that the except branch of log_attempt (line 393) ran, history_error that
\* the one of get_previously_selected_policies (line 376) ran and lost ids
\* the table held (on an empty table it returns what the SELECT returns);
\* derived_probability_for_unprotected is assigned at line 468 and holds 0
\* until then
InitialLocals(args) ==
    [input_df |-> args.input_df,
     batch_id |-> args.batch_id,
     target_overall_rate |-> args.target_overall_rate,
     estimated_unprotected_ratio |-> args.estimated_unprotected_ratio,
     status |-> "ERROR",
     message |-> Message("", <<>>, <<>>, <<>>),
     log_id |-> NoLogId,
     log_error |-> FALSE,
     history_error |-> FALSE,
     final_selected_df |-> <<>>,
     previously_selected_ids_from_db |-> {},
     derived_probability_for_unprotected |-> <<0, 1>>,
     num_input_records |-> 0,
     num_protected_skipped |-> 0,
     num_previously_selected_skipped |-> 0,
     num_passed_probability_gate |-> 0,
     num_selected_for_this_batch |-> 0,
     save_successful |-> FALSE]

\* except ValueError as e: message = str(e); status = 'ERROR'
RaiseValueError(L, msg) == [L EXCEPT !.status = "ERROR", !.message = msg]

\* SELECT policy_id FROM selected_applications, as a set
PolicyIds(table) == {table[i].policy_id : i \in DOMAIN table}

\* mutant: the content of the rows is validated before the columns are
\* looked for
try_before_loop_ContentFirst(L0, previously_selected) ==
    LET L1 == [L0 EXCEPT !.previously_selected_ids_from_db = previously_selected]
        df == L1.input_df
        L2 == [L1 EXCEPT !.num_input_records = Len(df.rows)]
        p == derived_probability_for_unprotected(
                 L1.target_overall_rate, L1.estimated_unprotected_ratio)
        L3 == [L2 EXCEPT !.derived_probability_for_unprotected = p]
        stripped == StripRows(df.rows)
        errors == validation_errors(stripped)
        Raised(L, msg) ==
            [raised |-> TRUE, locals |-> RaiseValueError(L, msg),
             all_apps_df |-> <<>>, p |-> <<0, 1>>]
    IN
    IF ~ df.is_dataframe \/ IsEmptyFrame(df)
    THEN Raised(L1, Message("Input data must be a non-empty pandas DataFrame.",
                            <<>>, <<>>, <<>>))
    ELSE IF ~ (0 < L2.estimated_unprotected_ratio
               /\ L2.estimated_unprotected_ratio <= RateScale)
    THEN Raised(L2, Message("Estimated unprotected ratio must be > 0 and <= 1.",
                            <<>>, <<>>, <<>>))
    ELSE IF errors # <<>>
    THEN Raised(L3, Message("Input data validation failed", errors,
                            DuplicateIds(stripped, 1, <<>>),
                            <<Cardinality({i \in DOMAIN stripped :
                                             invalid_date(stripped[i])})>>))
    ELSE IF missing_cols(df) # <<>>
    THEN Raised(L3, Message("Missing required columns", missing_cols(df),
                            <<>>, <<>>))
    ELSE [raised |-> FALSE, locals |-> L3,
          all_apps_df |-> NormalizeRows(stripped),
          p |-> p]

\* mutant: the ratio is checked to be positive only
try_before_loop_NoUpperRatioCheck(L0, previously_selected) ==
    LET L1 == [L0 EXCEPT !.previously_selected_ids_from_db = previously_selected]
        df == L1.input_df
        L2 == [L1 EXCEPT !.num_input_records = Len(df.rows)]
        p == derived_probability_for_unprotected(
                 L1.target_overall_rate, L1.estimated_unprotected_ratio)
        L3 == [L2 EXCEPT !.derived_probability_for_unprotected = p]
        stripped == StripRows(df.rows)
        errors == validation_errors(stripped)
        Raised(L, msg) ==
            [raised |-> TRUE, locals |-> RaiseValueError(L, msg),
             all_apps_df |-> <<>>, p |-> <<0, 1>>]
    IN
    IF ~ df.is_dataframe \/ IsEmptyFrame(df)
    THEN Raised(L1, Message("Input data must be a non-empty pandas DataFrame.",
                            <<>>, <<>>, <<>>))
    ELSE IF ~ (0 < L2.estimated_unprotected_ratio)
    THEN Raised(L2, Message("Estimated unprotected ratio must be > 0 and <= 1.",
                            <<>>, <<>>, <<>>))
    ELSE IF missing_cols(df) # <<>>
    THEN Raised(L3, Message("Missing required columns", missing_cols(df),
                            <<>>, <<>>))
    ELSE IF errors # <<>>
    THEN Raised(L3, Message("Input data validation failed", errors,
                            DuplicateIds(stripped, 1, <<>>),
                            <<Cardinality({i \in DOMAIN stripped :
                                             invalid_date(stripped[i])})>>))
    ELSE [raised |-> FALSE, locals |-> L3,
          all_apps_df |-> NormalizeRows(stripped),
          p |-> p]

\* The try block from the history read to the end of validation (lines
\* 455-525): either an exception, which line 572 turns into status and
\* message, or the validated rows and the derived probability.
try_before_loop(L0, previously_selected) ==
    LET L1 == [L0 EXCEPT !.previously_selected_ids_from_db = previously_selected]
        df == L1.input_df
        L2 == [L1 EXCEPT !.num_input_records = Len(df.rows)]
        p == derived_probability_for_unprotected(
                 L1.target_overall_rate, L1.estimated_unprotected_ratio)
        L3 == [L2 EXCEPT !.derived_probability_for_unprotected = p]
        stripped == StripRows(df.rows)
        errors == validation_errors(stripped)
        Raised(L, msg) ==
            [raised |-> TRUE, locals |-> RaiseValueError(L, msg),
             all_apps_df |-> <<>>, p |-> <<0, 1>>]
    IN
    IF ~ df.is_dataframe \/ IsEmptyFrame(df)
    THEN Raised(L1, Message("Input data must be a non-empty pandas DataFrame.",
                            <<>>, <<>>, <<>>))
    ELSE IF ~ (0 < L2.estimated_unprotected_ratio
               /\ L2.estimated_unprotected_ratio <= RateScale)
    THEN Raised(L2, Message("Estimated unprotected ratio must be > 0 and <= 1.",
                            <<>>, <<>>, <<>>))
    ELSE IF missing_cols(df) # <<>>
    THEN Raised(L3, Message("Missing required columns", missing_cols(df),
                            <<>>, <<>>))
    ELSE IF errors # <<>>
    THEN Raised(L3, Message("Input data validation failed", errors,
                            DuplicateIds(stripped, 1, <<>>),
                            <<Cardinality({i \in DOMAIN stripped :
                                             invalid_date(stripped[i])})>>))
    ELSE [raised |-> FALSE, locals |-> L3,
          all_apps_df |-> NormalizeRows(stripped),
          p |-> p]

\* mutant: a run that selects nothing ends with status ERROR
try_loop_EmptyIsError(V, draws) ==
    LET L2 == V.locals
        acc == selection_loop(V.all_apps_df, 1, draws, V.p,
                              LoopStart(L2.previously_selected_ids_from_db))
    IN
    [L2 EXCEPT
        !.previously_selected_ids_from_db = acc.previously_selected_ids_from_db,
        !.final_selected_df = acc.selected_policies_for_this_batch_rows,
        !.num_protected_skipped = acc.num_protected_skipped,
        !.num_previously_selected_skipped = acc.num_previously_selected_skipped,
        !.num_passed_probability_gate = acc.num_passed_probability_gate,
        !.num_selected_for_this_batch = acc.num_selected_for_this_batch,
        !.status = IF acc.num_selected_for_this_batch = 0
                   THEN "ERROR" ELSE "SUCCESS",
        !.message =
            Message("Processed", <<>>, <<>>,
                    <<L2.num_input_records,
                      acc.num_selected_for_this_batch,
                      acc.num_protected_skipped,
                      acc.num_previously_selected_skipped,
                      acc.num_passed_probability_gate>>)]

\* The loop and the lines after it (lines 527-570), for the draws of
\* random.random(), one per row.
try_loop(V, draws) ==
    LET L2 == V.locals
        acc == selection_loop(V.all_apps_df, 1, draws, V.p,
                              LoopStart(L2.previously_selected_ids_from_db))
    IN
    [L2 EXCEPT
        !.previously_selected_ids_from_db = acc.previously_selected_ids_from_db,
        !.final_selected_df = acc.selected_policies_for_this_batch_rows,
        !.num_protected_skipped = acc.num_protected_skipped,
        !.num_previously_selected_skipped = acc.num_previously_selected_skipped,
        !.num_passed_probability_gate = acc.num_passed_probability_gate,
        !.num_selected_for_this_batch = acc.num_selected_for_this_batch,
        !.status = "SUCCESS",
        !.message =
            Message("Processed", <<>>, <<>>,
                    <<L2.num_input_records,
                      acc.num_selected_for_this_batch,
                      acc.num_protected_skipped,
                      acc.num_previously_selected_skipped,
                      acc.num_passed_probability_gate>>)]

\* The body of the try block after setup_database (lines 455-572), given what
\* get_previously_selected_policies returned and the draws of random.random().
selection_try_body(L0, previously_selected, draws) ==
    LET V == try_before_loop(L0, previously_selected)
    IN IF V.raised THEN V.locals ELSE try_loop(V, draws)

\* mutant: the Attempt records the size of the eligible pool, the records
\* left after the protected and the historical ones are skipped
AttemptRow_EligiblePool(log_id, L, now) ==
    [log_id |-> log_id,
     batch_id |-> L.batch_id,
     status |-> L.status,
     message |-> L.message,
     selected_count |-> L.num_selected_for_this_batch,
     total_in_pool |-> L.num_input_records - L.num_protected_skipped
                          - L.num_previously_selected_skipped,
     frame_used |-> L.estimated_unprotected_ratio,
     log_timestamp |-> now]

\* the row log_attempt inserts; log_id is lastrowid of an AUTOINCREMENT key
AttemptRow(log_id, L, now) ==
    [log_id |-> log_id,
     batch_id |-> L.batch_id,
     status |-> L.status,
     message |-> L.message,
     selected_count |-> L.num_selected_for_this_batch,
     total_in_pool |-> L.num_input_records,
     frame_used |-> L.estimated_unprotected_ratio,
     log_timestamp |-> now]

\* the rows save_selected_apps hands to to_sql: id renamed to policy_id,
\* selection_log_id added, the columns of SELECTED_APP_DB_COLUMNS kept
SelectedRows(df, log_id, table) ==
    [i \in DOMAIN df |->
        [selected_app_id |-> Len(table) + i,
         selection_log_id |-> log_id,
         policy_id |-> df[i].id,
         advisor_id |-> df[i].advisor_id,
         application_receive_date |-> df[i].application_receive_date]]

\* mutant: the table was created without the UNIQUE constraint
ViolatesUnique_NoConstraint(rows, table) == FALSE

\* policy_id TEXT NOT NULL UNIQUE: the rows would break the constraint
ViolatesUnique(rows, table) ==
    \/ \E i \in DOMAIN rows : rows[i].policy_id \in PolicyIds(table)
    \/ \E i, j \in DOMAIN rows : i # j /\ rows[i].policy_id = rows[j].policy_id

\* line 579: the condition under which the finally block saves
should_save(L) ==
    L.status = "SUCCESS" /\ L.num_selected_for_this_batch > 0
    /\ L.log_id # NoLogId

\* ---------------------------------------------------------------- actions

NoArgs == Args(NotADataFrame, "", 0, 0)

Init ==
    /\ pc = [r \in Procs |-> "idle"]
    /\ run = [r \in Procs |-> InitialLocals(NoArgs)]
    /\ tables_exist = FALSE
    /\ selection_log = <<>>
    /\ selected_applications = <<>>
    /\ clock = 0
    /\ main_exit = [r \in Procs |-> Running]

\* run_selection is called (lines 437-454): the locals are set and
\* setup_database runs; an sqlite3.Error it raises is caught at line 574.
setup_database(r, args, ok) ==
    /\ pc[r] \in {"idle", "done"}
    /\ clock < MaxRuns
    /\ clock' = clock + 1
    /\ IF ok
       THEN /\ tables_exist' = TRUE
            /\ run' = [run EXCEPT ![r] = InitialLocals(args)]
            /\ pc' = [pc EXCEPT ![r] = "select"]
       ELSE /\ tables_exist' = tables_exist
            /\ run' = [run EXCEPT ![r] =
                         [InitialLocals(args) EXCEPT
                            !.status = "ERROR",
                            !.message = Message("An unexpected error occurred",
                                                <<>>, <<>>, <<>>)]]
            /\ pc' = [pc EXCEPT ![r] = "log"]
    /\ UNCHANGED <<selection_log, selected_applications>>

\* mutant: the set is read once, on the empty table of the first run, and
\* kept for the later runs
get_previously_selected_policies_Cached(ok) == {}

\* mutant: the set the loops add chosen ids to is one set shared by the
\* runs, so a run starts with what the others chose as well
get_previously_selected_policies_SharedSet(ok) ==
    (IF ok /\ tables_exist THEN PolicyIds(selected_applications) ELSE {})
    \cup UNION { run[q].previously_selected_ids_from_db : q \in Procs }

\* mutant: the SELECT of the history read names the advisor_id column
get_previously_selected_policies_AdvisorIds(ok) ==
    IF ok /\ tables_exist
    THEN { selected_applications[i].advisor_id :
             i \in DOMAIN selected_applications }
    ELSE {}

\* get_previously_selected_policies (lines 360-377): the ids of the table,
\* or the empty set when the read raises sqlite3.Error
get_previously_selected_policies(ok) ==
    IF ok /\ tables_exist THEN PolicyIds(selected_applications) ELSE {}

\* mutant: an sqlite3.Error of the history read is not caught in
\* get_previously_selected_policies and ends the try block at line 574
select_HistoryErrorAborts(r, read_ok, draws) ==
    /\ pc[r] = "select"
    /\ run' = [run EXCEPT ![r] =
                 IF read_ok
                 THEN selection_try_body(run[r],
                          get_previously_selected_policies(read_ok), draws)
                 ELSE [run[r] EXCEPT
                         !.history_error =
                             ~ read_ok /\ PolicyIds(selected_applications) # {},
                         !.status = "ERROR",
                         !.message = Message("An unexpected error occurred",
                                             <<>>, <<>>, <<>>)]]
    /\ pc' = [pc EXCEPT ![r] = "log"]
    /\ UNCHANGED <<tables_exist, selection_log, selected_applications, clock>>

\* lines 455-574: the history read, then validation and the loop
select(r, read_ok, draws) ==
    /\ pc[r] = "select"
    /\ run' = [run EXCEPT ![r] =
                 selection_try_body(
                     [run[r] EXCEPT !.history_error =
                         ~ read_ok /\ PolicyIds(selected_applications) # {}],
                     get_previously_selected_policies(read_ok), draws)]
    /\ pc' = [pc EXCEPT ![r] = "log"]
    /\ UNCHANGED <<tables_exist, selection_log, selected_applications, clock>>

\* mutant: the attempt is logged at the end of the try block instead of in
\* the finally block, so a call that raised logs nothing
log_attempt_NotInFinally(r, ok) ==
    /\ pc[r] = "log"
    /\ LET written == ok /\ tables_exist /\ run[r].status = "SUCCESS"
           log_id == IF written THEN Len(selection_log) + 1 ELSE NoLogId
           L == [run[r] EXCEPT !.log_id = log_id,
                               !.log_error = ~ (ok /\ tables_exist)]
       IN /\ selection_log' =
                IF written
                THEN Append(selection_log, AttemptRow(log_id, run[r], clock))
                ELSE selection_log
          /\ run' = [run EXCEPT ![r] = L]
          /\ pc' = [pc EXCEPT ![r] = IF should_save(L) THEN "save" ELSE "done"]
    /\ UNCHANGED <<tables_exist, selected_applications, clock>>

\* mutant: log_attempt returns cursor.lastrowid of an INSERT that was never
\* committed, so the Attempt is not in the table when the rows are saved
log_attempt_NotCommitted(r, ok) ==
    /\ pc[r] = "log"
    /\ LET written == ok /\ tables_exist
           log_id == IF written THEN Len(selection_log) + 1 ELSE NoLogId
           L == [run[r] EXCEPT !.log_id = log_id, !.log_error = ~ written]
       IN /\ selection_log' = selection_log
          /\ run' = [run EXCEPT ![r] = L]
          /\ pc' = [pc EXCEPT ![r] = IF should_save(L) THEN "save" ELSE "done"]
    /\ UNCHANGED <<tables_exist, selected_applications, clock>>

\* mutant: selection_log is keyed by the number of the batch instead of an
\* AUTOINCREMENT key of the table
log_attempt_KeyedByBatch(r, ok) ==
    /\ pc[r] = "log"
    /\ LET written == ok /\ tables_exist
           log_id == IF written THEN run[r].batch_id ELSE NoLogId
           L == [run[r] EXCEPT !.log_id = log_id, !.log_error = ~ written]
       IN /\ selection_log' =
                IF written
                THEN Append(selection_log, AttemptRow(log_id, run[r], clock))
                ELSE selection_log
          /\ run' = [run EXCEPT ![r] = L]
          /\ pc' = [pc EXCEPT ![r] = IF should_save(L) THEN "save" ELSE "done"]
    /\ UNCHANGED <<tables_exist, selected_applications, clock>>

\* line 577 and log_attempt (lines 379-393): the INSERT, or None when it
\* raises sqlite3.Error; then the branch of line 579
log_attempt(r, ok) ==
    /\ pc[r] = "log"
    /\ LET written == ok /\ tables_exist
           log_id == IF written THEN Len(selection_log) + 1 ELSE NoLogId
           L == [run[r] EXCEPT !.log_id = log_id, !.log_error = ~ written]
       IN /\ selection_log' =
                IF written
                THEN Append(selection_log, AttemptRow(log_id, run[r], clock))
                ELSE selection_log
          /\ run' = [run EXCEPT ![r] = L]
          /\ pc' = [pc EXCEPT ![r] = IF should_save(L) THEN "save" ELSE "done"]
    /\ UNCHANGED <<tables_exist, selected_applications, clock>>

\* the longest prefix of rows that the table accepts row by row
RECURSIVE AcceptedPrefix(_, _, _)
AcceptedPrefix(rows, i, table) ==
    IF i > Len(rows) \/ rows[i].policy_id \in PolicyIds(table) THEN table
    ELSE AcceptedPrefix(rows, i + 1, Append(table, rows[i]))

\* mutant: the rows are inserted and committed one by one, so the rows
\* before the one the UNIQUE constraint rejects stay in the table
save_selected_apps_RowByRow(r, db_error) ==
    /\ pc[r] = "save"
    /\ LET L == run[r]
           rows == SelectedRows(L.final_selected_df, L.log_id,
                                selected_applications)
       IN IF L.final_selected_df = <<>> \/ L.log_id = NoLogId
          THEN /\ run' = [run EXCEPT ![r].save_successful = TRUE]
               /\ pc' = [pc EXCEPT ![r] = "done"]
               /\ UNCHANGED selected_applications
          ELSE IF db_error
          THEN /\ run' = [run EXCEPT
                            ![r].status = "ERROR",
                            ![r].message = Message("Failed to save apps",
                                                   <<>>, <<>>, <<>>)]
               /\ pc' = [pc EXCEPT ![r] = "update"]
               /\ UNCHANGED selected_applications
          ELSE IF ViolatesUnique(rows, selected_applications)
          THEN /\ run' = [run EXCEPT
                            ![r].status = "ERROR",
                            ![r].message =
                                Message("IntegrityError: Failed to save. Selected",
                                        <<>>, <<>>,
                                        <<L.num_selected_for_this_batch>>)]
               /\ pc' = [pc EXCEPT ![r] = "update"]
               /\ selected_applications' =
                     AcceptedPrefix(rows, 1, selected_applications)
          ELSE /\ selected_applications' = selected_applications \o rows
               /\ run' = [run EXCEPT ![r].save_successful = TRUE]
               /\ pc' = [pc EXCEPT ![r] = "done"]
    /\ UNCHANGED <<tables_exist, selection_log, clock>>

\* mutant: to_sql is called with if_exists='replace', so the rows of the run
\* take the place of the table
save_selected_apps_Replace(r, db_error) ==
    /\ pc[r] = "save"
    /\ LET L == run[r]
           rows == SelectedRows(L.final_selected_df, L.log_id, <<>>)
       IN IF L.final_selected_df = <<>> \/ L.log_id = NoLogId
          THEN /\ run' = [run EXCEPT ![r].save_successful = TRUE]
               /\ pc' = [pc EXCEPT ![r] = "done"]
               /\ UNCHANGED selected_applications
          ELSE IF db_error
          THEN /\ run' = [run EXCEPT
                            ![r].status = "ERROR",
                            ![r].message = Message("Failed to save apps",
                                                   <<>>, <<>>, <<>>)]
               /\ pc' = [pc EXCEPT ![r] = "update"]
               /\ UNCHANGED selected_applications
          ELSE /\ selected_applications' = rows
               /\ run' = [run EXCEPT ![r].save_successful = TRUE]
               /\ pc' = [pc EXCEPT ![r] = "done"]
    /\ UNCHANGED <<tables_exist, selection_log, clock>>

\* mutant: the error of save_selected_apps is raised after to_sql and the
\* commit have gone through, so the rows of the failed save stay
save_selected_apps_RaisesAfterCommit(r, db_error) ==
    /\ pc[r] = "save"
    /\ LET L == run[r]
           rows == SelectedRows(L.final_selected_df, L.log_id,
                                selected_applications)
       IN IF L.final_selected_df = <<>> \/ L.log_id = NoLogId
          THEN /\ run' = [run EXCEPT ![r].save_successful = TRUE]
               /\ pc' = [pc EXCEPT ![r] = "done"]
               /\ UNCHANGED selected_applications
          ELSE IF ViolatesUnique(rows, selected_applications)
          THEN /\ run' = [run EXCEPT
                            ![r].status = "ERROR",
                            ![r].message =
                                Message("IntegrityError: Failed to save. Selected",
                                        <<>>, <<>>,
                                        <<L.num_selected_for_this_batch>>)]
               /\ pc' = [pc EXCEPT ![r] = "update"]
               /\ UNCHANGED selected_applications
          ELSE IF db_error
          THEN /\ selected_applications' = selected_applications \o rows
               /\ run' = [run EXCEPT
                            ![r].status = "ERROR",
                            ![r].message = Message("Failed to save apps",
                                                   <<>>, <<>>, <<>>)]
               /\ pc' = [pc EXCEPT ![r] = "update"]
          ELSE /\ selected_applications' = selected_applications \o rows
               /\ run' = [run EXCEPT ![r].save_successful = TRUE]
               /\ pc' = [pc EXCEPT ![r] = "done"]
    /\ UNCHANGED <<tables_exist, selection_log, clock>>

\* lines 579-583 and save_selected_apps (lines 395-432): nothing to do for an
\* empty frame or a missing log id; else to_sql appends the rows in one
\* transaction, which the UNIQUE constraint or another sqlite3.Error rolls
\* back; the handlers of lines 582-583 set status and message.  The frame
\* always has the columns lines 404-420 look for.
save_selected_apps(r, db_error) ==
    /\ pc[r] = "save"
    /\ LET L == run[r]
           rows == SelectedRows(L.final_selected_df, L.log_id,
                                selected_applications)
       IN IF L.final_selected_df = <<>> \/ L.log_id = NoLogId
          THEN /\ run' = [run EXCEPT ![r].save_successful = TRUE]
               /\ pc' = [pc EXCEPT ![r] = "done"]
               /\ UNCHANGED selected_applications
          ELSE IF db_error
          THEN /\ run' = [run EXCEPT
                            ![r].status = "ERROR",
                            ![r].message = Message("Failed to save apps",
                                                   <<>>, <<>>, <<>>)]
               /\ pc' = [pc EXCEPT ![r] = "update"]
               /\ UNCHANGED selected_applications
          ELSE IF ViolatesUnique(rows, selected_applications)
          THEN /\ run' = [run EXCEPT
                            ![r].status = "ERROR",
                            ![r].message =
                                Message("IntegrityError: Failed to save. Selected",
                                        <<>>, <<>>,
                                        <<L.num_selected_for_this_batch>>)]
               /\ pc' = [pc EXCEPT ![r] = "update"]
               /\ UNCHANGED selected_applications
          ELSE /\ selected_applications' = selected_applications \o rows
               /\ run' = [run EXCEPT ![r].save_successful = TRUE]
               /\ pc' = [pc EXCEPT ![r] = "done"]
    /\ UNCHANGED <<tables_exist, selection_log, clock>>

\* mutant: the UPDATE has no WHERE clause and rewrites every Attempt
update_log_NoWhere(r, ok) ==
    /\ pc[r] = "update"
    /\ selection_log' =
          IF ok
          THEN [i \in DOMAIN selection_log |->
                  [selection_log[i] EXCEPT !.status = run[r].status,
                                           !.message = run[r].message]]
          ELSE selection_log
    /\ pc' = [pc EXCEPT ![r] = "done"]
    /\ UNCHANGED <<run, tables_exist, selected_applications, clock>>

\* lines 584-587: UPDATE selection_log SET status, message WHERE log_id; an
\* exception it raises is logged and dropped
update_log(r, ok) ==
    /\ pc[r] = "update"
    /\ selection_log' =
          IF ok
          THEN [selection_log EXCEPT
                  ![run[r].log_id].status = run[r].status,
                  ![run[r].log_id].message = run[r].message]
          ELSE selection_log
    /\ pc' = [pc EXCEPT ![r] = "done"]
    /\ UNCHANGED <<run, tables_exist, selected_applications, clock>>

\* ----------------------------------------------------------------- inputs

\* ------------------------------------------------------------------- main

\* mutant: only estimated_unprotected_ratio is checked
config_error_RatioOnly(target, ratio) ==
    ~ (0 < ratio /\ ratio <= RateScale)

\* get_config_values of main.py (lines 35-38): both rates must be in (0, 1]
config_error(target, ratio) ==
    \/ ~ (0 < target /\ target <= RateScale)
    \/ ~ (0 < ratio /\ ratio <= RateScale)

\* main.py lines 94-118: the columns main adds when the file lacks them
main_added_columns(df) ==
    DataFrame(df.columns \cup
                 {"application_receive_date", "advisor_id", "branch_name",
                  "xml_blob"},
              df.rows)

\* main.py lines 94-121: an empty file, or one that lacks a required column
\* after the placeholders are added, ends main before run_selection
input_error(df) ==
    \/ IsEmptyFrame(df)
    \/ missing_cols(main_added_columns(df)) # <<>>

\* mutant: run_selection returns whether the run ended with status SUCCESS
run_selection_return_Status(L) == L.status = "SUCCESS"

\* line 590: return log_id is not None
run_selection_return(L) == L.log_id # NoLogId

\* main.py lines 135-140: sys.exit(0) if completed_logging else sys.exit(1)
main_exit_code(completed_logging) == IF completed_logging THEN 0 ELSE 1

\* main.py lines 136 and 139: what main logs before it exits
main_exit_log(completed_logging) ==
    IF completed_logging
    THEN "Selection process completed"
    ELSE "Selection process failed critically before logging"

\* main.py lines 59-63: the configuration is rejected, sys.exit(1)
main_config_error(r, target, ratio) ==
    /\ pc[r] = "idle" /\ ~ main_exit[r].exited
    /\ config_error(target, ratio)
    /\ main_exit' = [main_exit EXCEPT ![r] = Exited(1, "Configuration error")]
    /\ UNCHANGED <<pc, run, tables_exist, selection_log, selected_applications,
                   clock>>

\* main.py lines 74-128: the input file is rejected, sys.exit(1)
main_input_error(r, target, ratio, df) ==
    /\ pc[r] = "idle" /\ ~ main_exit[r].exited
    /\ ~ config_error(target, ratio)
    /\ input_error(df)
    /\ main_exit' = [main_exit EXCEPT ![r] =
                        Exited(1, IF IsEmptyFrame(df)
                                  THEN "Input file is empty."
                                  ELSE "Input file column error")]
    /\ UNCHANGED <<pc, run, tables_exist, selection_log, selected_applications,
                   clock>>

\* main.py line 133: run_selection is called with the rates of the
\* configuration and the frame read from the file
main_run_selection(r, target, ratio, df, batch_id, ok) ==
    /\ pc[r] = "idle" /\ ~ main_exit[r].exited
    /\ ~ config_error(target, ratio)
    /\ ~ input_error(df)
    /\ setup_database(r, Args(main_added_columns(df), batch_id, target, ratio), ok)
    /\ UNCHANGED main_exit

\* main.py lines 135-140: run_selection has returned
main_return(r) ==
    /\ pc[r] = "done" /\ ~ main_exit[r].exited
    /\ main_exit' = [main_exit EXCEPT ![r] =
                        Exited(main_exit_code(run_selection_return(run[r])),
                               main_exit_log(run_selection_return(run[r])))]
    /\ UNCHANGED <<pc, run, tables_exist, selection_log, selected_applications,
                   clock>>

Draws == 0 .. DrawScale - 1

\* random.random() is called in the loop only, and not for a protected row:
\* a call that raises before the loop draws nothing, another draws once per
\* row at most (the draw of a row that draws nothing is written 0)
DrawsFor(r) ==
    LET V == try_before_loop(run[r], {})
    IN IF V.raised THEN {<<>>}
       ELSE { draws \in [1 .. Len(V.all_apps_df) -> Draws] :
                \A i \in DOMAIN draws :
                    V.all_apps_df[i].protected_class_numeric = 1 => draws[i] = 0 }

\* --batch-id is "a unique identifier for this selection batch" (main.py line
\* 51): the n-th call of a behaviour is labelled n.
NextBatchId == clock + 1

\* The batches of Spec: two unprotected records; a protected record with a
\* record whose token flag_map does not hold.
Frames ==
    { DataFrame(AllColumns, rows) : rows \in
        { << Row("a", "0", "2010-06-15", "adv1"), Row("b", "no", "", "adv2") >>,
          << Row("a", "TRUE", "2010-06-15", "adv1"),
             Row("b", "Maybe", "", "adv2") >> } }

\* target_overall_rate = 1 / RateScale and estimated_unprotected_ratio =
\* 2 / RateScale: a derived probability of 1/2
Calls(frames) == { Args(df, NextBatchId, 1, 2) : df \in frames }

Next ==
    \/ /\ \E r \in Procs, args \in Calls(Frames), ok \in BOOLEAN :
             setup_database(r, args, ok)
       /\ UNCHANGED main_exit
    \/ /\ \E r \in Procs, ok \in BOOLEAN :
             \E draws \in DrawsFor(r) : select(r, ok, draws)
       /\ UNCHANGED main_exit
    \/ /\ \E r \in Procs, ok \in BOOLEAN : log_attempt(r, ok)
       /\ UNCHANGED main_exit
    \/ /\ \E r \in Procs, db_error \in BOOLEAN : save_selected_apps(r, db_error)
       /\ UNCHANGED main_exit
    \/ /\ \E r \in Procs, ok \in BOOLEAN : update_log(r, ok)
       /\ UNCHANGED main_exit

\* Runs of any number of processes that call run_selection against one
\* database, interleaved at the SQLite statements.
Spec == Init /\ [][Next]_vars

\* ------------------------------------------------------ batches of any shape

\* rows of a batch
MaxRows == 3

BatchIdValues == {"a", " a", ""}

BatchDateValues == {"2010-06-15", "not a date", "1999-12-31", "tomorrow"}

BatchRows ==
    { Row(id, "0", date, "adv1") : id \in BatchIdValues, date \in BatchDateValues }

BatchFrames ==
    { DataFrame(AllColumns, rows) :
        rows \in UNION { [1 .. n -> BatchRows] : n \in 0 .. MaxRows } }

SeedFrames ==
    { DataFrame(AllColumns, << Row("a", "0", "2010-06-15", "adv1") >>) }

\* One process: a first run that seeds the tables, then one run over a batch
\* of any rows.
NextBatch ==
    \/ /\ clock = 0
       /\ \E ok \in BOOLEAN, args \in Calls(SeedFrames) :
             setup_database("p1", args, ok)
       /\ UNCHANGED main_exit
    \/ /\ clock = 1
       /\ pc["p1"] = "done"
       /\ \E ok \in BOOLEAN, args \in Calls(BatchFrames) :
             setup_database("p1", args, ok)
       /\ UNCHANGED main_exit
    \/ /\ \E ok \in BOOLEAN :
             \E draws \in DrawsFor("p1") : select("p1", ok, draws)
       /\ UNCHANGED main_exit
    \/ /\ \E ok \in BOOLEAN : log_attempt("p1", ok)
       /\ UNCHANGED main_exit
    \/ /\ \E db_error \in BOOLEAN : save_selected_apps("p1", db_error)
       /\ UNCHANGED main_exit
    \/ /\ \E ok \in BOOLEAN : update_log("p1", ok)
       /\ UNCHANGED main_exit

SpecBatch == Init /\ [][NextBatch]_vars

\* ---------------------------------------------------------- claim helpers

\* ------------------------------------------------------- rates of any value

\* target_overall_rate, in units of 1 / RateScale: negative, zero, in (0, 1]
\* and above 1
RateTargets == (0 - 1) .. (RateScale + 1)

\* estimated_unprotected_ratio, in units of 1 / RateScale: zero, in (0, 1]
\* and above 1
RateRatios == 0 .. (RateScale + 1)

\* one batch: an unprotected record, a protected one, an unprotected one
RateFrames ==
    { DataFrame(AllColumns,
                << Row("a", "0", "2010-06-15", "adv1"),
                   Row("b", "TRUE", "2010-06-15", "adv1"),
                   Row("c", "no", "", "adv2") >>) }

RateCalls ==
    { Args(df, NextBatchId, t, e) :
        df \in RateFrames, t \in RateTargets, e \in RateRatios }

\* Processes that call run_selection once each, with rates of any value.
NextRates ==
    \/ /\ \E r \in Procs :
             /\ pc[r] = "idle"
             /\ \E ok \in BOOLEAN, args \in RateCalls :
                   setup_database(r, args, ok)
       /\ UNCHANGED main_exit
    \/ /\ \E r \in Procs, ok \in BOOLEAN :
             \E draws \in DrawsFor(r) : select(r, ok, draws)
       /\ UNCHANGED main_exit
    \/ /\ \E r \in Procs, ok \in BOOLEAN : log_attempt(r, ok)
       /\ UNCHANGED main_exit
    \/ /\ \E r \in Procs, db_error \in BOOLEAN : save_selected_apps(r, db_error)
       /\ UNCHANGED main_exit
    \/ /\ \E r \in Procs, ok \in BOOLEAN : update_log(r, ok)
       /\ UNCHANGED main_exit

SpecRates == Init /\ [][NextRates]_vars

\* ------------------------------------------------------------ runs of main

\* the rates a configuration file may hold, in units of 1 / RateScale
ConfigRates == 0 .. (RateScale + 1)

\* input files: a valid record; the same without the branch_name column; a
\* record with an empty id; a file without records; a file without the id
\* column
MainFiles ==
    { DataFrame(AllColumns, << Row("a", "0", "2010-06-15", "adv1") >>),
      DataFrame(AllColumns \ {"branch_name"},
                << Row("a", "0", "2010-06-15", "adv1") >>),
      DataFrame(AllColumns, << Row(" ", "0", "2010-06-15", "adv1") >>),
      DataFrame(AllColumns, << >>),
      DataFrame(AllColumns \ {"id"}, << Row("a", "0", "2010-06-15", "adv1") >>) }

\* Processes that each run main once against the same database.
NextMain ==
    \/ \E r \in Procs :
          /\ pc[r] = "idle"
          /\ \E target \in ConfigRates, ratio \in ConfigRates :
                main_config_error(r, target, ratio)
    \/ \E r \in Procs :
          /\ pc[r] = "idle"
          /\ \E target \in ConfigRates, ratio \in ConfigRates, df \in MainFiles :
                main_input_error(r, target, ratio, df)
    \/ \E r \in Procs :
          /\ pc[r] = "idle"
          /\ \E target \in ConfigRates, ratio \in ConfigRates, df \in MainFiles,
                ok \in BOOLEAN :
                main_run_selection(r, target, ratio, df, NextBatchId, ok)
    \/ /\ \E r \in Procs, ok \in BOOLEAN :
             \E draws \in DrawsFor(r) : select(r, ok, draws)
       /\ UNCHANGED main_exit
    \/ /\ \E r \in Procs, ok \in BOOLEAN : log_attempt(r, ok)
       /\ UNCHANGED main_exit
    \/ /\ \E r \in Procs, db_error \in BOOLEAN : save_selected_apps(r, db_error)
       /\ UNCHANGED main_exit
    \/ /\ \E r \in Procs, ok \in BOOLEAN : update_log(r, ok)
       /\ UNCHANGED main_exit
    \/ \E r \in Procs : main_return(r)

SpecMain == Init /\ [][NextMain]_vars

Range(f) == {f[i] : i \in DOMAIN f}

\* the process has passed the try block of its current call
AfterTry(r) == pc[r] \in {"log", "save", "update", "done"}

\* the rows of selection_log that carry the batch id of r's current call
AttemptsOf(r) ==
    {i \in DOMAIN selection_log : selection_log[i].batch_id = run[r].batch_id}

\* the rows of selected_applications written under r's log id
RowsOf(r) ==
    {k \in DOMAIN selected_applications :
        selected_applications[k].selection_log_id = run[r].log_id}

ChosenIds(r) == {run[r].final_selected_df[i].id : i \in DOMAIN run[r].final_selected_df}

\* --------------------------------------------------------------------- C1

\* C1: after any sequence of runs of run_selection against the same store,
\* re-submissions, failed history reads and interleaved runs included, no two
\* rows of selected_applications have the same policy_id.
C1_NoReselection ==
    \A i, j \in DOMAIN selected_applications :
        i # j => selected_applications[i].policy_id
                    # selected_applications[j].policy_id

\* A run chose an id that another run had saved in the meantime, and the
\* table holds rows of two attempts.
C1_Witness ==
    \E r \in Procs :
        /\ pc[r] = "done"
        /\ run[r].message.text = "IntegrityError: Failed to save. Selected"
        /\ \E k \in DOMAIN selected_applications :
              selected_applications[k].policy_id \in ChosenIds(r)
        /\ Len(selected_applications) >= 1

\* --------------------------------------------------------------------- C2

\* C2: whatever the batch, the history and the draws, no record whose
\* normalized protected_class is 1 is in the chosen set of a run, and every
\* row written under the run's log id is a record of that chosen set.
C2_ProtectedExcluded ==
    \A r \in Procs :
        /\ \A i \in DOMAIN run[r].final_selected_df :
              protected_class_numeric(run[r].final_selected_df[i].protected_class) # 1
        /\ run[r].log_id # NoLogId =>
              \A k \in RowsOf(r) :
                  selected_applications[k].policy_id \in ChosenIds(r)

\* A run over a batch with a protected record chose and saved another record
\* of the batch while it skipped the protected one.
C2_Witness ==
    \E r \in Procs :
        /\ pc[r] = "done"
        /\ run[r].num_protected_skipped > 0
        /\ run[r].save_successful
        /\ RowsOf(r) # {}

\* --------------------------------------------------------------------- C3

\* C3 as stated: every invocation of run_selection, whether it succeeds,
\* fails validation or fails persistence, has added exactly one row to
\* selection_log when it returns.
C3_ExactlyOneAttempt ==
    \A r \in Procs : pc[r] = "done" => Cardinality(AttemptsOf(r)) = 1

\* C3 amended: an invocation adds no row before it reaches log_attempt;
\* from then on it has added exactly one row, the one log_attempt returned
\* the id of, unless the INSERT of log_attempt raised sqlite3.Error, in which
\* case it has added none; it never adds two.
C3_OneAttemptUnlessWriteFails ==
    \A r \in Procs :
        /\ pc[r] \in {"select", "log"} => AttemptsOf(r) = {}
        /\ pc[r] \in {"save", "update", "done"} =>
              IF run[r].log_error
              THEN AttemptsOf(r) = {} /\ run[r].log_id = NoLogId
              ELSE AttemptsOf(r) = {run[r].log_id} /\ run[r].log_id # NoLogId

\* A run that failed to save has logged its one attempt, and after it a run
\* that failed validation has logged its own.
C3_Witness ==
    /\ pc["p1"] = "done"
    /\ run["p1"].message.text = "Input data validation failed"
    /\ Cardinality(AttemptsOf("p1")) = 1
    /\ Len(selection_log) = 2
    /\ selection_log[1].status = "ERROR"
    /\ selection_log[1].message.text = "Failed to save apps"

\* ---------------------------------------------------------------- C4, C5

\* the except branches of lines 582-583 ran in r's current call
SaveFailed(r) ==
    run[r].message.text \in
        {"IntegrityError: Failed to save. Selected", "Failed to save apps"}

\* C4: whenever save_selected_apps fails in a run, the Attempt the run
\* logged ends the run with status ERROR and with the persistence failure as
\* its message; no run ends with a failed persist and a SUCCESS Attempt.
C4_LogRolledBackOnSaveFailure ==
    \A r \in Procs :
        pc[r] = "done" /\ SaveFailed(r) =>
            /\ selection_log[run[r].log_id].status = "ERROR"
            /\ selection_log[run[r].log_id].message = run[r].message

\* C5: when two runs chose the same id and one of them has saved it, the
\* save of the other is rejected and the Attempt of that other run is
\* downgraded to ERROR.
C5_RaceRejectedAndDowngraded ==
    \A r, q \in Procs :
        ( /\ r # q
          /\ pc[r] = "done" /\ pc[q] = "done"
          /\ ChosenIds(r) \cap ChosenIds(q) # {}
          /\ run[q].save_successful
          /\ run[r].log_id # NoLogId )
        => /\ ~ run[r].save_successful
           /\ RowsOf(r) = {}
           /\ selection_log[run[r].log_id].status = "ERROR"

\* --------------------------------------------------------------------- C6

\* C6: a step in which save_selected_apps fails on the uniqueness constraint
\* leaves selected_applications exactly as it was: no row of the attempt is
\* applied.
C6_AtomicPersistFailure ==
    [][ \A r \in Procs :
          ( /\ pc[r] = "save"
            /\ pc'[r] = "update"
            /\ run'[r].message.text = "IntegrityError: Failed to save. Selected" )
          => selected_applications' = selected_applications ]_vars

\* A run that chose two ids was rejected because of one of them, and the
\* other one is not in the table.
C6_Witness ==
    \E r \in Procs :
        /\ pc[r] = "update"
        /\ run[r].message.text = "IntegrityError: Failed to save. Selected"
        /\ Len(run[r].final_selected_df) = 2
        /\ \E i \in DOMAIN run[r].final_selected_df :
              run[r].final_selected_df[i].id
                 \notin PolicyIds(selected_applications)

\* --------------------------------------------------------------------- C7

\* C7: a step changes selected_applications only as the save of a run whose
\* Attempt is already in selection_log with status SUCCESS and whose chosen
\* set is not empty, and it appends that run's rows under that Attempt's id;
\* a run with status ERROR, an empty selection or a failed attempt write
\* therefore writes no row.
C7_PersistGateAndOrder ==
    [][ selected_applications' # selected_applications =>
          \E r \in Procs :
              /\ pc[r] = "save" /\ pc'[r] = "done"
              /\ ~ run[r].log_error
              /\ run[r].log_id \in DOMAIN selection_log
              /\ selection_log[run[r].log_id].status = "SUCCESS"
              /\ selection_log[run[r].log_id].batch_id = run[r].batch_id
              /\ run[r].status = "SUCCESS"
              /\ run[r].final_selected_df # <<>>
              /\ Len(selected_applications') =
                    Len(selected_applications) + Len(run[r].final_selected_df)
              /\ \A k \in DOMAIN selected_applications' :
                    IF k <= Len(selected_applications)
                    THEN selected_applications'[k] = selected_applications[k]
                    ELSE /\ selected_applications'[k].selection_log_id
                              = run[r].log_id
                         /\ selected_applications'[k].policy_id
                              \in ChosenIds(r) ]_vars

\* After a first run that logged an ERROR Attempt and wrote nothing, a run
\* has logged a SUCCESS Attempt and then saved its rows under it.
C7_Witness ==
    /\ pc["p1"] = "done"
    /\ Len(selection_log) = 2
    /\ selection_log[1].status = "ERROR"
    /\ selection_log[2].status = "SUCCESS"
    /\ run["p1"].save_successful
    /\ RowsOf("p1") # {}
    /\ \A k \in DOMAIN selected_applications :
          selected_applications[k].selection_log_id = 2

\* ------------------------------------------------- violations of a batch

\* What a batch violates, read off its raw rows as section 4.1 of the spec
\* words the rules: ids and dates are taken trimmed, a date is compared by
\* its calendar day.
EmptyIdPresent(rows) == \E i \in DOMAIN rows : Strip(rows[i].id) = ""

DuplicatedIdsPresent(rows) ==
    {Strip(rows[i].id) : i \in
        {i \in DOMAIN rows :
            \E j \in DOMAIN rows : j # i /\ Strip(rows[j].id) = Strip(rows[i].id)}}

ParsedDate(row) == to_datetime(Strip(row.application_receive_date))

UnparseableDatePresent(rows) ==
    \E i \in DOMAIN rows :
        Strip(rows[i].application_receive_date) # "" /\ ParsedDate(rows[i]).isnull

FutureDatePresent(rows) ==
    \E i \in DOMAIN rows :
        ~ ParsedDate(rows[i]).isnull /\ ParsedDate(rows[i]).day > TodayDay

Pre2000DatePresent(rows) ==
    \E i \in DOMAIN rows :
        ~ ParsedDate(rows[i]).isnull /\ ParsedDate(rows[i]).day < MinAllowedDay

AnyViolationPresent(rows) ==
    \/ EmptyIdPresent(rows)
    \/ DuplicatedIdsPresent(rows) # {}
    \/ UnparseableDatePresent(rows)
    \/ FutureDatePresent(rows)
    \/ Pre2000DatePresent(rows)

\* --------------------------------------------------------------------- C8

\* C8 as stated: a run whose batch holds any violation selects no record,
\* owns no row of selected_applications, and ends with an Attempt of its
\* batch in selection_log that has status ERROR and selected_count 0.
C8_RejectedAndAlwaysLogged ==
    \A r \in Procs :
        AfterTry(r) /\ AnyViolationPresent(run[r].input_df.rows) =>
            /\ run[r].final_selected_df = <<>>
            /\ RowsOf(r) = {}
            /\ (pc[r] = "done" =>
                  \E i \in AttemptsOf(r) :
                      /\ selection_log[i].status = "ERROR"
                      /\ selection_log[i].selected_count = 0)

\* C8, amended: a run whose batch holds any violation (an empty id, a
\* duplicate id, an unparseable, future or pre-2000 date) chooses no record,
\* never reaches the save, owns no row of selected_applications and hands
\* status ERROR and selected_count 0 to log_attempt; the Attempt it logs has
\* them, unless the INSERT of log_attempt fails, and then the run logs no
\* Attempt; no step of such a run changes selected_applications.
C8_WholeBatchRejected ==
    /\ [] (\A r \in Procs :
             AfterTry(r) /\ AnyViolationPresent(run[r].input_df.rows) =>
                 /\ run[r].final_selected_df = <<>>
                 /\ run[r].status = "ERROR"
                 /\ run[r].num_selected_for_this_batch = 0
                 /\ pc[r] \in {"log", "done"}
                 /\ RowsOf(r) = {}
                 /\ (pc[r] = "done" /\ ~ run[r].log_error =>
                       /\ AttemptsOf(r) = {run[r].log_id}
                       /\ selection_log[run[r].log_id].status = "ERROR"
                       /\ selection_log[run[r].log_id].selected_count = 0)
                 /\ (pc[r] = "done" /\ run[r].log_error =>
                       AttemptsOf(r) = {}))
    /\ [][ \A r \in Procs :
             ( /\ pc'[r] # pc[r]
               /\ AnyViolationPresent(run'[r].input_df.rows) )
             => selected_applications' = selected_applications ]_vars

\* A run over a batch with a violation has logged its ERROR Attempt while
\* the table holds a row of an earlier attempt, which it left alone.
C8_Witness ==
    /\ pc["p1"] = "done"
    /\ AnyViolationPresent(run["p1"].input_df.rows)
    /\ Len(run["p1"].input_df.rows) = 2
    /\ ~ run["p1"].log_error
    /\ selection_log[run["p1"].log_id].status = "ERROR"
    /\ Len(selected_applications) = 1

\* --------------------------------------------------------------------- C9

\* the try block got as far as the validation of lines 493-523
ValidationReached(r) ==
    /\ AfterTry(r)
    /\ run[r].message.text # "An unexpected error occurred"
    /\ run[r].input_df.is_dataframe
    /\ ~ IsEmptyFrame(run[r].input_df)
    /\ missing_cols(run[r].input_df) = <<>>
    /\ 0 < run[r].estimated_unprotected_ratio
    /\ run[r].estimated_unprotected_ratio <= RateScale

\* C9: whatever combination of violations a batch holds (empty id, duplicate
\* id, unparseable date, future date, date before 2000-01-01), the one
\* validation error names every violation present, the duplicated ids
\* included, and it is the message of the ERROR Attempt the run logs.
C9_ValidationAggregated ==
    \A r \in Procs :
        ValidationReached(r) /\ AnyViolationPresent(run[r].input_df.rows) =>
            LET rows == run[r].input_df.rows
                said == Range(run[r].message.detail)
            IN /\ run[r].message.text = "Input data validation failed"
               /\ EmptyIdPresent(rows) => "Empty 'id' found." \in said
               /\ DuplicatedIdsPresent(rows) # {} =>
                     /\ "Duplicate id(s) in input" \in said
                     /\ DuplicatedIdsPresent(rows) \subseteq Range(run[r].message.ids)
               /\ UnparseableDatePresent(rows) =>
                     "Unparseable 'application_receive_date'" \in said
               /\ FutureDatePresent(rows) =>
                     "Future 'application_receive_date' found." \in said
               /\ Pre2000DatePresent(rows) =>
                     "'application_receive_date' before 2000-01-01 found." \in said
               /\ (pc[r] = "done" /\ ~ run[r].log_error =>
                     /\ selection_log[run[r].log_id].status = "ERROR"
                     /\ selection_log[run[r].log_id].message = run[r].message)

\* A batch with all five violations at once has been logged with five texts.
C9_Witness ==
    LET rows == run["p1"].input_df.rows
    IN /\ pc["p1"] = "done"
       /\ ~ run["p1"].log_error
       /\ EmptyIdPresent(rows)
       /\ DuplicatedIdsPresent(rows) # {}
       /\ UnparseableDatePresent(rows)
       /\ FutureDatePresent(rows)
       /\ Pre2000DatePresent(rows)
       /\ Len(selection_log[run["p1"].log_id].message.detail) = 5

\* -------------------------------------------------------------------- C10

\* the tokens the claim lists, compared case-insensitively
ValidTokens == {"true", "1", "yes", "t", "false", "0", "no", "f", ""}

InvalidTokenPresent(rows) ==
    \E i \in DOMAIN rows : Lower(Strip(rows[i].protected_class)) \notin ValidTokens

\* C10: a batch with a record whose protected_class token is none of
\* true/1/yes/t/false/0/no/f/empty is rejected: the run that validates it
\* ends with status ERROR, reports the token and selects nothing.
C10_InvalidTokenRejected ==
    \A r \in Procs :
        ValidationReached(r) /\ InvalidTokenPresent(run[r].input_df.rows) =>
            /\ run[r].final_selected_df = <<>>
            /\ run[r].message.text = "Input data validation failed"
            /\ "Invalid 'protected_class' values (must be 0 or 1 after conversion)."
                  \in Range(run[r].message.detail)

\* -------------------------------------------------------------------- C11

\* p <= q on probabilities <<numerator, denominator>>
ProbLe(p, q) == p[1] * q[2] <= q[1] * p[2]

\* C11: in every call with eligible_fraction in (0, 1], whatever target_rate
\* is, the probability the loop uses is target_rate / eligible_fraction
\* clamped to [0, 1]: 1 when the quotient exceeds 1, 0 when it is negative;
\* and of two calls, the one with the larger target_rate at equal
\* eligible_fraction has the larger or equal probability, the one with the
\* larger eligible_fraction at equal target_rate the smaller or equal one.
C11_DerivedProbability ==
    /\ \A r \in Procs :
         ValidationReached(r) =>
            LET t == run[r].target_overall_rate
                e == run[r].estimated_unprotected_ratio
                p == run[r].derived_probability_for_unprotected
            IN /\ p[2] > 0 /\ 0 <= p[1] /\ p[1] <= p[2]
               /\ (t > e => p[1] = p[2])
               /\ (t < 0 => p[1] = 0)
               /\ (0 <= t /\ t <= e => p[1] * e = t * p[2])
    /\ \A r1, r2 \in Procs :
         ValidationReached(r1) /\ ValidationReached(r2) =>
            LET t1 == run[r1].target_overall_rate
                t2 == run[r2].target_overall_rate
                e1 == run[r1].estimated_unprotected_ratio
                e2 == run[r2].estimated_unprotected_ratio
                p1 == run[r1].derived_probability_for_unprotected
                p2 == run[r2].derived_probability_for_unprotected
            IN /\ (e1 = e2 /\ t1 <= t2 => ProbLe(p1, p2))
               /\ (t1 = t2 /\ e1 <= e2 => ProbLe(p2, p1))

\* Two calls with the same eligible_fraction have gone through the loop: one
\* with a negative target_rate, clamped to 0, one with a quotient above 1,
\* clamped to 1.
C11_Witness ==
    /\ ValidationReached("p1") /\ ValidationReached("p2")
    /\ run["p1"].message.text = "Processed"
    /\ run["p2"].message.text = "Processed"
    /\ run["p1"].estimated_unprotected_ratio = run["p2"].estimated_unprotected_ratio
    /\ run["p1"].target_overall_rate < 0
    /\ run["p1"].derived_probability_for_unprotected = <<0, 1>>
    /\ run["p2"].target_overall_rate > run["p2"].estimated_unprotected_ratio
    /\ run["p2"].derived_probability_for_unprotected = <<1, 1>>

\* -------------------------------------------------------------------- C12

\* the ids of the batch that are neither protected nor in history
EligibleIds(rows, history) ==
    { Strip(rows[i].id) : i \in
        { i \in DOMAIN rows :
            /\ protected_class_numeric(Strip(rows[i].protected_class)) # 1
            /\ Strip(rows[i].id) \notin history } }

\* the step of r is its history read, validation and loop, and the loop ran
RanLoop(r) ==
    /\ pc[r] = "select" /\ pc'[r] = "log"
    /\ run'[r].message.text = "Processed"

HistoryRecords(rows, history) ==
    { i \in DOMAIN rows :
        /\ protected_class_numeric(Strip(rows[i].protected_class)) # 1
        /\ Strip(rows[i].id) \in history }

\* what C13 asks of the step in which r reads history and runs the loop
HistoryExcludedBy(r) ==
    LET history == PolicyIds(selected_applications)
        known == HistoryRecords(run[r].input_df.rows, history)
        chosen == { run'[r].final_selected_df[i].id :
                      i \in DOMAIN run'[r].final_selected_df }
    IN /\ chosen \cap history = {}
       /\ run'[r].num_previously_selected_skipped = Cardinality(known)
       /\ run'[r].message.counts[4] = Cardinality(known)

\* C13 as stated: in every run, no unprotected record whose id is in
\* selected_applications when the run reads history is chosen, whatever its
\* draw, and the message counts exactly those records as skipped for history.
C13_HistoryExcludedInEveryRun ==
    [][ \A r \in Procs : RanLoop(r) => HistoryExcludedBy(r) ]_vars

\* C13, amended: the same for every run whose history read did not raise;
\* the message the Attempt is logged with is that message.
C13_HistoryExcludedWhenRead ==
    /\ [][ \A r \in Procs :
             RanLoop(r) /\ ~ run'[r].history_error => HistoryExcludedBy(r) ]_vars
    /\ [] (\A r \in Procs :
             ( /\ pc[r] = "done" /\ ~ run[r].log_error
               /\ run[r].message.text = "Processed" )
             => selection_log[run[r].log_id].message = run[r].message)

\* A run has read a history that holds an id of its batch, skipped that
\* record and logged the count.
C13_Witness ==
    \E r \in Procs :
        /\ pc[r] = "done"
        /\ ~ run[r].history_error /\ ~ run[r].log_error
        /\ run[r].message.text = "Processed"
        /\ run[r].num_previously_selected_skipped >= 1
        /\ selection_log[run[r].log_id].message.counts[4] >= 1
        /\ \E k \in DOMAIN selected_applications :
              /\ selected_applications[k].selection_log_id # run[r].log_id
              /\ selected_applications[k].policy_id \in
                    { Strip(run[r].input_df.rows[i].id) :
                        i \in DOMAIN run[r].input_df.rows }

\* -------------------------------------------------------------------- C14

\* the call of locals L has a valid batch and valid rates for run_selection
ValidCall(L) ==
    /\ L.input_df.is_dataframe
    /\ ~ IsEmptyFrame(L.input_df)
    /\ missing_cols(L.input_df) = <<>>
    /\ 0 < L.estimated_unprotected_ratio
    /\ L.estimated_unprotected_ratio <= RateScale
    /\ ~ AnyViolationPresent(L.input_df.rows)

\* r's step is its history read, validation and loop
SelectStep(r) == pc[r] = "select" /\ pc'[r] = "log"

\* what the try block leaves when the pool is empty: status SUCCESS, nothing
\* chosen, and a message with the N records of the batch, 0 selected, and
\* skip counts that account for all N
EmptyPoolOutcome(L) ==
    LET N == Len(L.input_df.rows)
    IN /\ L.status = "SUCCESS"
       /\ L.final_selected_df = <<>>
       /\ L.num_selected_for_this_batch = 0
       /\ L.message.text = "Processed"
       /\ L.message.counts[1] = N
       /\ L.message.counts[2] = 0
       /\ L.message.counts[3] + L.message.counts[4] = N
       /\ L.message.counts[5] = 0

\* r has finished a run that left the try block with an empty selection
EmptySuccess(r) ==
    /\ pc[r] = "done"
    /\ run[r].message.text = "Processed"
    /\ run[r].num_selected_for_this_batch = 0

C15_SoleAllowedMutation ==
    [][ /\ Len(selection_log') >= Len(selection_log)
        /\ \A i \in DOMAIN selection_log :
              LET old == selection_log[i]
                  new == selection_log'[i]
              IN /\ new.log_id = old.log_id
                 /\ new.batch_id = old.batch_id
                 /\ new.selected_count = old.selected_count
                 /\ new.total_in_pool = old.total_in_pool
                 /\ new.frame_used = old.frame_used
                 /\ new.log_timestamp = old.log_timestamp
                 /\ (new.status # old.status \/ new.message # old.message) =>
                       /\ old.status = "SUCCESS"
                       /\ new.status = "ERROR"
                       /\ \E r \in Procs :
                             /\ pc[r] = "update" /\ pc'[r] = "done"
                             /\ run[r].log_id = i
                             /\ run[r].batch_id = old.batch_id
                             /\ SaveFailed(r)
                             /\ new.message = run[r].message ]_vars

\* A run whose save failed has turned its own Attempt to ERROR while the
\* SUCCESS Attempt of the other run stayed as it was.
C15_Witness ==
    \E r1, r2 \in Procs :
        /\ r1 # r2
        /\ pc[r1] = "done" /\ pc[r2] = "done"
        /\ SaveFailed(r1)
        /\ run[r1].log_id \in DOMAIN selection_log
        /\ selection_log[run[r1].log_id].status = "ERROR"
        /\ selection_log[run[r1].log_id].message = run[r1].message
        /\ selection_log[run[r1].log_id].selected_count > 0
        /\ run[r2].save_successful
        /\ run[r2].log_id \in DOMAIN selection_log
        /\ selection_log[run[r2].log_id].status = "SUCCESS"
        /\ selection_log[run[r2].log_id].message.text = "Processed"

\* -------------------------------------------------------------------- C16

\* main has exited after its call of run_selection returned
ReturnedToMain(r) == pc[r] = "done" /\ main_exit[r].exited

\* C16: run_selection returns true, and main exits with code 0, exactly
\* when the run has written its Attempt to selection_log; when the INSERT of
\* log_attempt fails there is no Attempt of the run, main exits with code 1
\* after logging the failure, and no step of the run changes
\* selected_applications.
C16_ReturnValue ==
    /\ [] (\A r \in Procs :
             ReturnedToMain(r) =>
                /\ (main_exit[r].code = 0 <=> AttemptsOf(r) # {})
                /\ (main_exit[r].code = 0 /\ ~ run[r].log_error
                      /\ AttemptsOf(r) = {run[r].log_id}
                      /\ main_exit[r].logged = "Selection process completed")
                   \/ (main_exit[r].code = 1 /\ run[r].log_error
                         /\ AttemptsOf(r) = {}
                         /\ RowsOf(r) = {}
                         /\ main_exit[r].logged =
                               "Selection process failed critically before logging"))
    /\ [][ \A r \in Procs :
             pc'[r] # pc[r] /\ run'[r].log_error
             => selected_applications' = selected_applications ]_vars

\* One run of main has ended with code 1 because its attempt write failed on
\* existing tables, another with code 0 and its Attempt in the log.
C16_Witness ==
    \E r1, r2 \in Procs :
        /\ ReturnedToMain(r1) /\ ReturnedToMain(r2)
        /\ tables_exist
        /\ run[r1].log_error
        /\ run[r1].status = "SUCCESS"
        /\ run[r1].num_selected_for_this_batch > 0
        /\ main_exit[r1].code = 1
        /\ ~ run[r2].log_error
        /\ main_exit[r2].code = 0
        /\ Len(selection_log) = 1

\* -------------------------------------------------------------------- C17

\* the run of r failed validation
FailedValidation(r) == run[r].message.text = "Input data validation failed"

\* C17: of two runs of main whose Attempts were logged, one that failed
\* validation and one that succeeded with an empty selection, the values
\* run_selection returned differ and the exit codes of main differ.
C17_ValidationFailureDistinct ==
    \A r1, r2 \in Procs :
        ( /\ ReturnedToMain(r1) /\ ReturnedToMain(r2)
          /\ ~ run[r1].log_error /\ ~ run[r2].log_error
          /\ FailedValidation(r1)
          /\ EmptySuccess(r2) )
        => /\ run_selection_return(run[r1]) # run_selection_return(run[r2])
           /\ main_exit[r1].code # main_exit[r2].code

\* -------------------------------------------------------------------- C18

\* the rate is in (0, 1]
RateInRange(x) == 0 < x /\ x <= RateScale

\* C18: run_selection is invoked by main only with both configured rates in
\* (0, 1], so every Attempt carries such a ratio; a main that rejects its
\* configuration exits with code 1 without having called run_selection, and
\* the step in which it does so leaves selection_log and
\* selected_applications as they were.
C18_ConfigurationErrorFatal ==
    /\ [] (\A r \in Procs :
             /\ (pc[r] # "idle" =>
                   /\ RateInRange(run[r].target_overall_rate)
                   /\ RateInRange(run[r].estimated_unprotected_ratio))
             /\ (main_exit[r].logged = "Configuration error" =>
                   /\ main_exit[r].exited /\ main_exit[r].code = 1
                   /\ pc[r] = "idle"
                   /\ run[r] = InitialLocals(NoArgs)))
    /\ [] (\A i \in DOMAIN selection_log :
             RateInRange(selection_log[i].frame_used))
    /\ [][ \A r \in Procs :
             ( /\ main_exit'[r] # main_exit[r]
               /\ main_exit'[r].logged = "Configuration error" )
             => UNCHANGED <<pc, run, tables_exist, selection_log,
                            selected_applications, clock>> ]_vars

\* A main has exited on its configuration while the other main ran and
\* wrote an Attempt and a row.
C18_Witness ==
    \E r1, r2 \in Procs :
        /\ main_exit[r1] = Exited(1, "Configuration error")
        /\ pc[r1] = "idle"
        /\ ReturnedToMain(r2)
        /\ main_exit[r2].code = 0
        /\ Len(selection_log) = 1
        /\ Len(selected_applications) = 1

\* -------------------------------------------------------------------- C19

\* the number of protected records of the batch
ProtectedCount(rows) ==
    Cardinality({ i \in DOMAIN rows :
                    protected_class_numeric(Strip(rows[i].protected_class)) = 1 })

\* C19: a run whose history read raised while the table held ids goes on
\* with the empty history: on a valid call it ends the try block with
\* status SUCCESS, skips no record for history, skips exactly the protected
\* records, ends with a history of just the ids it chose, and chooses every
\* unprotected record when the probability is 1; it then logs its Attempt
\* like any other run.
C19_HistoryUnavailableDegrades ==
    /\ [][ \A r \in Procs :
             SelectStep(r) /\ run'[r].history_error =>
                LET rows == run[r].input_df.rows
                    chosen == { run'[r].final_selected_df[i].id :
                                  i \in DOMAIN run'[r].final_selected_df }
                IN /\ PolicyIds(selected_applications) # {}
                   /\ run'[r].num_previously_selected_skipped = 0
                   /\ ValidCall(run[r]) =>
                         /\ run'[r].status = "SUCCESS"
                         /\ run'[r].message.text = "Processed"
                         /\ run'[r].message.counts[4] = 0
                         /\ run'[r].num_protected_skipped = ProtectedCount(rows)
                         /\ run'[r].previously_selected_ids_from_db = chosen
                         /\ chosen \subseteq EligibleIds(rows, {})
                         /\ (run[r].target_overall_rate
                                >= run[r].estimated_unprotected_ratio
                             => chosen = EligibleIds(rows, {})) ]_vars
    /\ [] (\A r \in Procs :
             run[r].history_error /\ pc[r] = "done" /\ ~ run[r].log_error =>
                /\ AttemptsOf(r) = {run[r].log_id}
                /\ selection_log[run[r].log_id].total_in_pool
                      = Len(run[r].input_df.rows)
                /\ selection_log[run[r].log_id].selected_count
                      = run[r].num_selected_for_this_batch)

\* A run whose history read raised has chosen a record that was in the
\* table, logged its Attempt, and had its save rejected.
C19_Witness ==
    \E r \in Procs :
        /\ pc[r] = "done"
        /\ run[r].history_error /\ ~ run[r].log_error
        /\ ChosenIds(r) \cap PolicyIds(selected_applications) # {}
        /\ run[r].message.text = "IntegrityError: Failed to save. Selected"
        /\ selection_log[run[r].log_id].selected_count >= 1

\* -------------------------------------------------------------------- C20

\* the history r's run started its loop with, read off the locals after the
\* step: the loop adds the ids it chooses to the set it was given
HistoryStartedWith(L) ==
    IF L.message.text = "Processed"
    THEN L.previously_selected_ids_from_db
            \ { L.final_selected_df[i].id : i \in DOMAIN L.final_selected_df }
    ELSE L.previously_selected_ids_from_db

\* C20 as stated: the history every run starts with is exactly the set of
\* ids in selected_applications at the moment of its read.
C20_HistoryIsTableAtRead ==
    [][ \A r \in Procs :
          SelectStep(r) =>
             HistoryStartedWith(run'[r]) = PolicyIds(selected_applications) ]_vars

\* C20, amended: the history a run starts with is exactly the set of ids in
\* selected_applications at the moment of its read, whatever earlier runs
\* held in memory, so a run started after others completed sees every id
\* they persisted; unless the read raises, and then it is empty.
C20_FreshHistoryPerRun ==
    [][ \A r \in Procs :
          SelectStep(r) =>
             /\ (~ run'[r].history_error =>
                   /\ HistoryStartedWith(run'[r])
                         = PolicyIds(selected_applications)
                   /\ \A k \in DOMAIN selected_applications :
                         selected_applications[k].policy_id
                            \in run'[r].previously_selected_ids_from_db)
             /\ (run'[r].history_error => HistoryStartedWith(run'[r]) = {}) ]_vars

\* A second run, started after the first one completed, has read exactly
\* the id the first run persisted.
C20_Witness ==
    \E r \in Procs :
        /\ pc[r] = "log"
        /\ clock = 2
        /\ ~ run[r].history_error
        /\ Len(selected_applications) = 1
        /\ HistoryStartedWith(run[r]) = PolicyIds(selected_applications)
        /\ Len(selection_log) = 1
        /\ selection_log[1].selected_count = 1
        /\ \A q \in Procs : q # r => pc[q] = "idle"

\* -------------------------------------------------------------------- C21

\* C21: every row of selection_log, whatever its status, has a frame_used
\* (the estimated_unprotected_ratio the run was called with) in (0, 1].
C21_RatioUsedInRange ==
    \A i \in DOMAIN selection_log : RateInRange(selection_log[i].frame_used)

\* -------------------------------------------------------------------- C22

\* the call of r was given a batch with records
NonEmptyBatch(r) ==
    run[r].input_df.is_dataframe /\ ~ IsEmptyFrame(run[r].input_df)

\* setup_database raised in r's call, before the batch was looked at
SetupFailed(r) == run[r].message.text = "An unexpected error occurred"

\* C22 as stated: the Attempt of every run given a non-empty batch has a
\* total_in_pool equal to the number of records of the batch, protected and
\* historical ones included, whether its status is SUCCESS or ERROR.
C22_PoolSizeIsBatchSize ==
    \A r \in Procs :
        NonEmptyBatch(r) =>
            \A i \in AttemptsOf(r) :
                selection_log[i].total_in_pool = Len(run[r].input_df.rows)

\* C22, amended: the same for every run whose setup_database did not raise;
\* the Attempt of a run whose setup_database raised has total_in_pool 0.
C22_PoolSizeUnlessSetupFails ==
    \A r \in Procs :
        NonEmptyBatch(r) =>
            \A i \in AttemptsOf(r) :
                selection_log[i].total_in_pool =
                    IF SetupFailed(r) THEN 0 ELSE Len(run[r].input_df.rows)

\* A run over a batch of three records has skipped a protected and a
\* historical one, chosen the third and failed to save it: its ERROR Attempt
\* has total_in_pool 3, as has the SUCCESS Attempt of the other run.
C22_Witness ==
    \E r1, r2 \in Procs :
        /\ pc[r1] = "done" /\ pc[r2] = "done"
        /\ run[r1].save_successful /\ ~ run[r1].log_error
        /\ selection_log[run[r1].log_id].status = "SUCCESS"
        /\ selection_log[run[r1].log_id].total_in_pool = 3
        /\ run[r2].num_protected_skipped = 1
        /\ run[r2].num_previously_selected_skipped = 1
        /\ SaveFailed(r2)
        /\ selection_log[run[r2].log_id].status = "ERROR"
        /\ selection_log[run[r2].log_id].total_in_pool = 3

\* -------------------------------------------------------------------- C23

\* C23: no step updates or deletes a row of selected_applications: across
\* any sequence of runs the table only grows, and a row once written keeps
\* its policy_id, selection_log_id, advisor_id and application_receive_date.
C23_AppendOnlySelected ==
    [][ /\ Len(selected_applications') >= Len(selected_applications)
        /\ \A k \in DOMAIN selected_applications :
              LET old == selected_applications[k]
                  new == selected_applications'[k]
              IN /\ new.selected_app_id = old.selected_app_id
                 /\ new.policy_id = old.policy_id
                 /\ new.selection_log_id = old.selection_log_id
                 /\ new.advisor_id = old.advisor_id
                 /\ new.application_receive_date
                       = old.application_receive_date ]_vars

\* Both runs have ended and the table holds the row of a first attempt and,
\* appended after it, the row of a second one.
C23_Witness ==
    /\ Len(selected_applications) = 2
    /\ selected_applications[1].selection_log_id
          # selected_applications[2].selection_log_id
    /\ \A r \in Procs : pc[r] = "done"
    /\ \E r \in Procs : run[r].save_successful /\ RowsOf(r) # {}

\* -------------------------------------------------------------------- C24

\* C24: no two rows of selection_log have the same log_id, and the row a
\* step inserts has a log_id strictly greater than that of every row that
\* was in the table before the step, also when runs interleave; the id
\* log_attempt returns to the run is the one of the row it inserted.
C24_AttemptIdUniqueMonotonic ==
    /\ [] (\A i, j \in DOMAIN selection_log :
             i # j => selection_log[i].log_id # selection_log[j].log_id)
    /\ [][ \A j \in DOMAIN selection_log' \ DOMAIN selection_log :
             /\ \A i \in DOMAIN selection_log :
                   selection_log[i].log_id < selection_log'[j].log_id
             /\ \E r \in Procs :
                   /\ pc[r] = "log" /\ pc'[r] # "log"
                   /\ run'[r].log_id = selection_log'[j].log_id
                   /\ selection_log'[j].batch_id = run[r].batch_id ]_vars

\* Two interleaved runs have logged their Attempts in the order opposite to
\* the one they were called in.
C24_Witness ==
    /\ Len(selection_log) = 2
    /\ selection_log[1].batch_id > selection_log[2].batch_id
    /\ selection_log[1].log_id < selection_log[2].log_id

\* ------------------------------------------------- the loop on any batch

\* batches the validator would reject for a duplicate id, and others: any
\* rows over two ids, protected or not
LoopRows == { Row(id, pclass, "2010-06-15", "adv1") :
                id \in {"a", "b"}, pclass \in {"0", "TRUE"} }

LoopFrames ==
    { DataFrame(AllColumns, rows) :
        rows \in UNION { [1 .. n -> LoopRows] : n \in 1 .. MaxRows } }

\* The loop of lines 527-570 is entered with a batch that went through lines
\* 479-521 (copy, strip, protected_class_numeric, dates) but not through the
\* raise of line 523, with a history and a derived probability.
loop_entry(r, df, previously_selected, target, ratio) ==
    /\ pc[r] = "idle"
    /\ run' = [run EXCEPT ![r] =
                 [InitialLocals(Args(df, NextBatchId, target, ratio)) EXCEPT
                    !.previously_selected_ids_from_db = previously_selected,
                    !.num_input_records = Len(df.rows),
                    !.derived_probability_for_unprotected =
                        derived_probability_for_unprotected(target, ratio)]]
    /\ pc' = [pc EXCEPT ![r] = "loop"]
    /\ UNCHANGED <<tables_exist, selection_log, selected_applications, clock,
                   main_exit>>

\* lines 527-570 on the batch of loop_entry
loop_only(r, draws) ==
    /\ pc[r] = "loop"
    /\ run' = [run EXCEPT ![r] =
                 try_loop([raised |-> FALSE,
                           locals |-> run[r],
                           all_apps_df |->
                               NormalizeRows(StripRows(run[r].input_df.rows)),
                           p |-> run[r].derived_probability_for_unprotected],
                          draws)]
    /\ pc' = [pc EXCEPT ![r] = "looped"]
    /\ UNCHANGED <<tables_exist, selection_log, selected_applications, clock,
                   main_exit>>

\* one draw of random.random() per row that is not protected
LoopDrawsFor(r) ==
    LET rows == NormalizeRows(StripRows(run[r].input_df.rows))
    IN { draws \in [DOMAIN rows -> Draws] :
           \A i \in DOMAIN rows :
               rows[i].protected_class_numeric = 1 => draws[i] = 0 }

NextLoop ==
    \/ \E df \in LoopFrames, previously_selected \in SUBSET {"a", "b"},
          target \in 0 .. RateScale :
          loop_entry("p1", df, previously_selected, target, RateScale)
    \/ \E draws \in LoopDrawsFor("p1") : loop_only("p1", draws)

\* The selection loop alone, on a batch of any rows, duplicate ids included.
SpecLoop == Init /\ [][NextLoop]_vars

\* -------------------------------------------------------------------- C25

\* the ids of the batch that occur in two of its unprotected rows
RepeatedUnprotectedIds(rows) ==
    { rows[i].id : i \in
        { i \in DOMAIN rows :
            /\ protected_class_numeric(rows[i].protected_class) # 1
            /\ \E j \in DOMAIN rows :
                  /\ j # i /\ rows[j].id = rows[i].id
                  /\ protected_class_numeric(rows[j].protected_class) # 1 } }

\* C25: whatever the batch, a batch in which an id occurs twice included,
\* the list the loop chooses has pairwise distinct ids; every id it chose
\* is in the history it ends with, no row is counted twice, and with a
\* probability of 1 every row is chosen, skipped as protected or skipped
\* for history, the later rows of a chosen id among the last.
C25_WorkingHistory ==
    \A r \in Procs :
        pc[r] = "looped" =>
            LET chosen == run[r].final_selected_df
                rows == run[r].input_df.rows
            IN /\ \A i, j \in DOMAIN chosen :
                     i # j => chosen[i].id # chosen[j].id
               /\ ChosenIds(r) \subseteq run[r].previously_selected_ids_from_db
               /\ run[r].num_selected_for_this_batch = Cardinality(ChosenIds(r))
               /\ run[r].num_selected_for_this_batch
                     + run[r].num_previously_selected_skipped
                     + run[r].num_protected_skipped <= Len(rows)
               /\ (run[r].derived_probability_for_unprotected = <<1, 1>> =>
                     run[r].num_selected_for_this_batch
                        + run[r].num_previously_selected_skipped
                        + run[r].num_protected_skipped = Len(rows))

\* The loop has gone over a batch in which the id a occurs in three
\* unprotected rows: it chose a once, for the first row, and skipped the two
\* others as historical though the history it started with was empty.
C25_Witness ==
    /\ pc["p1"] = "looped"
    /\ RepeatedUnprotectedIds(run["p1"].input_df.rows) = {"a"}
    /\ Len(run["p1"].input_df.rows) = 3
    /\ HistoryStartedWith(run["p1"]) = {}
    /\ ChosenIds("p1") = {"a"}
    /\ Len(run["p1"].final_selected_df) = 1
    /\ run["p1"].num_previously_selected_skipped = 2

\* -------------------------------------------------------------------- C26

\* no call of run_selection is in progress
Quiescent == \A r \in Procs : pc[r] \in {"idle", "done"}

\* the rows of selection_log with the log_id
AttemptsWithId(log_id) ==
    { i \in DOMAIN selection_log : selection_log[i].log_id = log_id }

\* C26: whenever no run is in progress, the selection_log_id of every row
\* of selected_applications is the log_id of a row of selection_log, and
\* that row has status SUCCESS: no row is owned by an ERROR Attempt or by a
\* missing one.
C26_ReferentialIntegrity ==
    Quiescent =>
        \A k \in DOMAIN selected_applications :
            /\ AttemptsWithId(selected_applications[k].selection_log_id) # {}
            /\ \A i \in AttemptsWithId(selected_applications[k].selection_log_id) :
                  selection_log[i].status = "SUCCESS"

\* Both runs have ended: one saved its row under its SUCCESS Attempt, the
\* other chose a record, failed to save it and turned its Attempt to ERROR,
\* which owns no row.
C26_Witness ==
    /\ Quiescent
    /\ \E r1, r2 \in Procs :
          /\ pc[r1] = "done" /\ pc[r2] = "done"
          /\ run[r1].save_successful /\ RowsOf(r1) # {}
          /\ selection_log[run[r1].log_id].status = "SUCCESS"
          /\ SaveFailed(r2)
          /\ run[r2].log_id # NoLogId
          /\ selection_log[run[r2].log_id].status = "ERROR"
          /\ RowsOf(r2) = {}

\* -------------------------------------------------------------------- C27

\* the rows of selected_applications tagged with the log_id
RowsTagged(log_id) ==
    { k \in DOMAIN selected_applications :
        selected_applications[k].selection_log_id = log_id }

\* C27: whenever no run is in progress, the rows of selected_applications
\* tagged with the log_id of an Attempt of status SUCCESS are as many as
\* the Attempt's selected_count, and for the run that wrote the Attempt
\* they are exactly the records it chose.
C27_AttemptAndSelectionsAgree ==
    Quiescent =>
        /\ \A i \in DOMAIN selection_log :
              selection_log[i].status = "SUCCESS" =>
                 Cardinality(RowsTagged(selection_log[i].log_id))
                    = selection_log[i].selected_count
        /\ \A r \in Procs :
              ( /\ pc[r] = "done" /\ run[r].log_id # NoLogId
                /\ selection_log[run[r].log_id].status = "SUCCESS" )
              => { selected_applications[k].policy_id : k \in RowsOf(r) }
                    = ChosenIds(r)

\* -------------------------------------------------------------------- C28

\* r's save has failed in its current call
PersistFailed(r) == pc[r] \in {"update", "done"} /\ SaveFailed(r)

RerunFrames ==
    RateFrames \cup
    { DataFrame(AllColumns,
                << Row(" a", "0", "06/15/2010", "adv1"),
                   Row("d", "f", "today", "adv2") >>) }

\* target_overall_rate in units of 1 / RateScale, with
\* estimated_unprotected_ratio 1: derived probabilities from 1 / RateScale
\* to 1, the last one by the cap
RerunTargets == 1 .. (RateScale + 1)

\* One process runs a batch to its end, then another runs a batch, the same
\* or another, against the same database.
NextRerun ==
    \/ /\ clock = 0
       /\ \E ok \in BOOLEAN, df \in RerunFrames, target \in RerunTargets :
             setup_database("p1", Args(df, NextBatchId, target, RateScale), ok)
       /\ UNCHANGED main_exit
    \/ /\ clock = 1
       /\ pc["p1"] = "done"
       /\ \E ok \in BOOLEAN, df \in RerunFrames, target \in RerunTargets :
             setup_database("p2", Args(df, NextBatchId, target, RateScale), ok)
       /\ UNCHANGED main_exit
    \/ /\ \E r \in Procs, ok \in BOOLEAN :
             \E draws \in DrawsFor(r) : select(r, ok, draws)
       /\ UNCHANGED main_exit
    \/ /\ \E r \in Procs, ok \in BOOLEAN : log_attempt(r, ok)
       /\ UNCHANGED main_exit
    \/ /\ \E r \in Procs, db_error \in BOOLEAN : save_selected_apps(r, db_error)
       /\ UNCHANGED main_exit
    \/ /\ \E r \in Procs, ok \in BOOLEAN : update_log(r, ok)
       /\ UNCHANGED main_exit

SpecRerun == Init /\ [][NextRerun]_vars

\* -------------------------------------------------------------------- C29

\* the run of locals L went through the loop with a derived probability of
\* 1.0 and what it chose is in selected_applications
PersistedAtOne(L) ==
    /\ L.message.text = "Processed"
    /\ L.derived_probability_for_unprotected[1]
          = L.derived_probability_for_unprotected[2]
    /\ L.log_id # NoLogId
    /\ L.num_selected_for_this_batch > 0 => L.save_successful

\* q's call was given the batch that the completed run of r was given
Resubmitted(r, q) ==
    /\ pc[r] = "done" /\ PersistedAtOne(run[r])
    /\ pc[q] # "idle"
    /\ run[q].batch_id > run[r].batch_id
    /\ run[q].input_df = run[r].input_df

ProtectedRows(rows) ==
    { i \in DOMAIN rows :
        protected_class_numeric(Strip(rows[i].protected_class)) = 1 }

UnprotectedRowsIn(rows, ids) ==
    { i \in DOMAIN rows : i \notin ProtectedRows(rows) /\ Strip(rows[i].id) \in ids }

\* C30: the loop counts every protected record as skipped for protection,
\* also one whose id is in history, and counts as skipped for history only
\* unprotected records whose id is in history (the history it started with
\* or an id it chose in an earlier row), exactly those of the starting
\* history when no id occurs in two unprotected rows; it chooses only
\* unprotected records whose id was not in history, so no record is under
\* two of the counters, and the message reports these counters.
C30_ExclusionPrecedence ==
    \A r \in Procs :
        pc[r] = "looped" =>
            LET rows == run[r].input_df.rows
                L == run[r]
            IN /\ L.num_protected_skipped = Cardinality(ProtectedRows(rows))
               /\ L.num_previously_selected_skipped + L.num_selected_for_this_batch
                     <= Cardinality(UnprotectedRowsIn(
                                        rows, L.previously_selected_ids_from_db))
               /\ (RepeatedUnprotectedIds(rows) = {} =>
                     L.num_previously_selected_skipped
                        = Cardinality(UnprotectedRowsIn(rows,
                                                        HistoryStartedWith(L))))
               /\ L.num_previously_selected_skipped
                     >= Cardinality(UnprotectedRowsIn(rows, HistoryStartedWith(L)))
               /\ L.num_selected_for_this_batch = L.num_passed_probability_gate
               /\ L.num_protected_skipped + L.num_previously_selected_skipped
                     + L.num_selected_for_this_batch <= Len(rows)
               /\ L.message.counts =
                     << Len(rows), L.num_selected_for_this_batch,
                        L.num_protected_skipped,
                        L.num_previously_selected_skipped,
                        L.num_passed_probability_gate >>

\* The loop has gone over a batch with a protected record whose id is in
\* history and an unprotected record whose id is in history: it counted one
\* record as protected and one as historical.
C30_Witness ==
    LET rows == run["p1"].input_df.rows
        L == run["p1"]
    IN /\ pc["p1"] = "looped"
       /\ Len(rows) = 2
       /\ \E i \in ProtectedRows(rows) : rows[i].id \in HistoryStartedWith(L)
       /\ UnprotectedRowsIn(rows, HistoryStartedWith(L)) # {}
       /\ L.num_protected_skipped = 1
       /\ L.num_previously_selected_skipped = 1

\* ------------------------------------------------- the loop, row by row

\* The locals with two fields the code does not keep: examined, the number
\* of rows the loop has been through, and failed_draws, the number of those
\* that passed both checks and not the gate.
WithLoopGhosts(L) ==
    [f \in DOMAIN L \cup {"examined", "failed_draws"} |->
        IF f \in {"examined", "failed_draws"} THEN 0 ELSE L[f]]

\* the locals the loop updates, read off the locals of the call
AccOf(L) ==
    [previously_selected_ids_from_db |-> L.previously_selected_ids_from_db,
     selected_policies_for_this_batch_rows |-> L.final_selected_df,
     num_protected_skipped |-> L.num_protected_skipped,
     num_previously_selected_skipped |-> L.num_previously_selected_skipped,
     num_passed_probability_gate |-> L.num_passed_probability_gate,
     num_selected_for_this_batch |-> L.num_selected_for_this_batch]

\* mutant: the loop does not move on to the next row
loop_step_NoAdvance(r, draw) ==
    /\ pc[r] = "loop"
    /\ LET G == IF "examined" \in DOMAIN run[r]
                THEN run[r] ELSE WithLoopGhosts(run[r])
           rows == NormalizeRows(StripRows(G.input_df.rows))
           i == G.examined + 1
           p == G.derived_probability_for_unprotected
           reaches_gate ==
               /\ rows[i].protected_class_numeric # 1
               /\ rows[i].id \notin G.previously_selected_ids_from_db
           acc == loop_body(rows[i], draw, p, AccOf(G))
       IN /\ G.examined < Len(rows)
          /\ ~ reaches_gate => draw = 0
          /\ run' = [run EXCEPT ![r] =
                [G EXCEPT
                   !.previously_selected_ids_from_db =
                       acc.previously_selected_ids_from_db,
                   !.final_selected_df =
                       acc.selected_policies_for_this_batch_rows,
                   !.num_protected_skipped = acc.num_protected_skipped,
                   !.num_previously_selected_skipped =
                       acc.num_previously_selected_skipped,
                   !.num_passed_probability_gate =
                       acc.num_passed_probability_gate,
                   !.num_selected_for_this_batch =
                       acc.num_selected_for_this_batch]]
    /\ UNCHANGED <<pc, tables_exist, selection_log, selected_applications,
                   clock, main_exit>>

\* one pass of the loop of lines 528-551, over the next row of the batch of
\* loop_entry; random.random() is called only for a row that passed both
\* checks (the draw of another row is written 0)
loop_step(r, draw) ==
    /\ pc[r] = "loop"
    /\ LET G == IF "examined" \in DOMAIN run[r]
                THEN run[r] ELSE WithLoopGhosts(run[r])
           rows == NormalizeRows(StripRows(G.input_df.rows))
           i == G.examined + 1
           p == G.derived_probability_for_unprotected
           reaches_gate ==
               /\ rows[i].protected_class_numeric # 1
               /\ rows[i].id \notin G.previously_selected_ids_from_db
           acc == loop_body(rows[i], draw, p, AccOf(G))
       IN /\ G.examined < Len(rows)
          /\ ~ reaches_gate => draw = 0
          /\ run' = [run EXCEPT ![r] =
                [G EXCEPT
                   !.previously_selected_ids_from_db =
                       acc.previously_selected_ids_from_db,
                   !.final_selected_df =
                       acc.selected_policies_for_this_batch_rows,
                   !.num_protected_skipped = acc.num_protected_skipped,
                   !.num_previously_selected_skipped =
                       acc.num_previously_selected_skipped,
                   !.num_passed_probability_gate =
                       acc.num_passed_probability_gate,
                   !.num_selected_for_this_batch =
                       acc.num_selected_for_this_batch,
                   !.examined = i,
                   !.failed_draws =
                       IF reaches_gate /\ ~ passes_probability_gate(draw, p)
                       THEN @ + 1 ELSE @]]
    /\ UNCHANGED <<pc, tables_exist, selection_log, selected_applications,
                   clock, main_exit>>

\* the rows are exhausted: lines 553-570 set status and message
loop_end(r) ==
    /\ pc[r] = "loop"
    /\ "examined" \in DOMAIN run[r]
    /\ run[r].examined = Len(run[r].input_df.rows)
    /\ run' = [run EXCEPT ![r] =
                 [run[r] EXCEPT
                    !.status = "SUCCESS",
                    !.message =
                        Message("Processed", <<>>, <<>>,
                                <<run[r].num_input_records,
                                  run[r].num_selected_for_this_batch,
                                  run[r].num_protected_skipped,
                                  run[r].num_previously_selected_skipped,
                                  run[r].num_passed_probability_gate>>)]]
    /\ pc' = [pc EXCEPT ![r] = "looped"]
    /\ UNCHANGED <<tables_exist, selection_log, selected_applications, clock,
                   main_exit>>

NextSteps ==
    \/ \E df \in LoopFrames, previously_selected \in SUBSET {"a", "b"},
          target \in 0 .. RateScale :
          loop_entry("p1", df, previously_selected, target, RateScale)
    \/ \E draw \in Draws : loop_step("p1", draw)
    \/ loop_end("p1")

\* The selection loop alone, one row at a time.
SpecSteps == Init /\ [][NextSteps]_vars

\* -------------------------------------------------------------------- C31

\* C31: at every step of the loop the counters of protected, historical and
\* selected records sum to at most the number of records examined so far,
\* and with the eligible records that were not chosen to exactly that
\* number; selected equals the length of the chosen list and the count of
\* records that passed the gate; at the end of the loop the number examined
\* is the number of records processed, which the message reports with the
\* counters.
C31_CounterConsistency ==
    \A r \in Procs :
        pc[r] \in {"loop", "looped"} /\ "examined" \in DOMAIN run[r] =>
            LET L == run[r]
                three == L.num_protected_skipped
                            + L.num_previously_selected_skipped
                            + L.num_selected_for_this_batch
            IN /\ three <= L.examined
               /\ three + L.failed_draws = L.examined
               /\ L.examined <= L.num_input_records
               /\ L.num_selected_for_this_batch = Len(L.final_selected_df)
               /\ L.num_selected_for_this_batch = L.num_passed_probability_gate
               /\ (pc[r] = "looped" =>
                     /\ L.examined = Len(L.input_df.rows)
                     /\ L.num_input_records = three + L.failed_draws
                     /\ L.message.counts =
                           << L.num_input_records,
                              L.num_selected_for_this_batch,
                              L.num_protected_skipped,
                              L.num_previously_selected_skipped,
                              L.num_passed_probability_gate >>)

\* The loop has ended on a batch of three unprotected records: one was in
\* history, one was chosen and one did not pass the gate.
C31_Witness ==
    /\ pc["p1"] = "looped"
    /\ Len(run["p1"].input_df.rows) = 3
    /\ run["p1"].num_previously_selected_skipped = 1
    /\ run["p1"].num_selected_for_this_batch = 1
    /\ run["p1"].failed_draws = 1
    /\ run["p1"].num_protected_skipped = 0

\* ----------------------------------------------- a batch and a permutation

\* the ids of a validated batch, one per row
PermIds == <<"a", "b", "c", "d", "e">>

\* validated batches of up to MaxRows rows: unique ids, protected or not
PermFrames ==
    { DataFrame(AllColumns,
                [i \in 1 .. n |-> Row(PermIds[i], pclass[i], "2010-06-15", "adv1")]) :
        n \in { m \in 1 .. MaxRows : m <= Len(PermIds) },
        pclass \in [1 .. MaxRows -> {"0", "TRUE"}] }

BatchPermutations(n) ==
    { f \in [1 .. n -> 1 .. n] : \A i, j \in 1 .. n : i # j => f[i] # f[j] }

Permuted(df, f) == DataFrame(df.columns, [i \in DOMAIN df.rows |-> df.rows[f[i]]])

\* the locals on entry to the loop, as loop_entry sets them
LoopEntryLocals(df, previously_selected, target, ratio) ==
    [InitialLocals(Args(df, NextBatchId, target, ratio)) EXCEPT
        !.previously_selected_ids_from_db = previously_selected,
        !.num_input_records = Len(df.rows),
        !.derived_probability_for_unprotected =
            derived_probability_for_unprotected(target, ratio)]

\* two calls enter the loop with the same history and probability, one with
\* a batch, the other with a permutation of it
pair_entry(df, f, previously_selected, target, ratio) ==
    /\ \A r \in Procs : pc[r] = "idle"
    /\ run' = [r \in Procs |->
                 LoopEntryLocals(IF r = "p1" THEN df ELSE Permuted(df, f),
                                 previously_selected, target, ratio)]
    /\ pc' = [r \in Procs |-> "loop"]
    /\ UNCHANGED <<tables_exist, selection_log, selected_applications, clock,
                   main_exit>>

\* lines 527-570 in both calls, with random.random() replaced by a function
\* of the id of the row
pair_loop(draw_of) ==
    /\ \A r \in Procs : pc[r] = "loop"
    /\ run' = [r \in Procs |->
                 LET rows == NormalizeRows(StripRows(run[r].input_df.rows))
                 IN try_loop([raised |-> FALSE,
                              locals |-> run[r],
                              all_apps_df |-> rows,
                              p |-> run[r].derived_probability_for_unprotected],
                             [i \in DOMAIN rows |-> draw_of[rows[i].id]])]
    /\ pc' = [r \in Procs |-> "looped"]
    /\ UNCHANGED <<tables_exist, selection_log, selected_applications, clock,
                   main_exit>>

\* the draws of the rows of p1's batch by id; a protected row draws nothing
DrawsById ==
    LET rows == NormalizeRows(StripRows(run["p1"].input_df.rows))
        ids == { rows[i].id : i \in DOMAIN rows }
    IN { d \in [ids -> Draws] :
           \A i \in DOMAIN rows :
               rows[i].protected_class_numeric = 1 => d[rows[i].id] = 0 }

NextPerm ==
    \/ \E df \in PermFrames, previously_selected \in SUBSET {"a", "b"},
          target \in 0 .. RateScale :
          \E f \in BatchPermutations(Len(df.rows)) :
             pair_entry(df, f, previously_selected, target, RateScale)
    \/ \E draw_of \in DrawsById : pair_loop(draw_of)

\* The selection loop on a validated batch and on a permutation of it.
SpecPerm == Init /\ [][NextPerm]_vars

\* -------------------------------------------------------------------- C32

\* the ids of the rows of the list, in its order
IdsInOrder(rows) == [i \in DOMAIN rows |-> Strip(rows[i].id)]

\* C32: for a batch of unique ids and a permutation of it, run with the
\* same history, the same probability and draws that depend on the id only,
\* the loop chooses the same set of ids, ends with the same history and the
\* same counters and reports them in the same message; each chosen list has
\* its ids in the order of its own batch.
C32_OrderIndependence ==
    (\A r \in Procs : pc[r] = "looped") =>
        LET L1 == run["p1"]
            L2 == run["p2"]
        IN /\ ChosenIds("p1") = ChosenIds("p2")
           /\ L1.previously_selected_ids_from_db
                 = L2.previously_selected_ids_from_db
           /\ L1.num_selected_for_this_batch = L2.num_selected_for_this_batch
           /\ L1.num_protected_skipped = L2.num_protected_skipped
           /\ L1.num_previously_selected_skipped
                 = L2.num_previously_selected_skipped
           /\ L1.num_passed_probability_gate = L2.num_passed_probability_gate
           /\ L1.message = L2.message
           /\ \A r \in Procs :
                 IdsInOrder(run[r].final_selected_df) =
                    SelectSeq(IdsInOrder(run[r].input_df.rows),
                              LAMBDA id : id \in ChosenIds(r))

\* The loop has chosen two records of a batch and the same two of its
\* permutation, in the opposite order, and skipped a record for history in
\* both.
C32_Witness ==
    /\ \A r \in Procs : pc[r] = "looped"
    /\ run["p1"].input_df # run["p2"].input_df
    /\ Len(run["p1"].final_selected_df) = 2
    /\ IdsInOrder(run["p1"].final_selected_df)
          # IdsInOrder(run["p2"].final_selected_df)
    /\ ChosenIds("p1") = ChosenIds("p2")
    /\ run["p1"].num_previously_selected_skipped = 1
    /\ run["p2"].num_previously_selected_skipped = 1

\* ------------------------------------------------ run_selection, any input

\* dates on and around the two ends of the allowed range, and no date
RangeDateValues ==
    {"2000-01-01", "today", "today 12:00:00", "", "tomorrow", "1999-12-31"}

\* batches of one or two records with unique ids and dates of RangeDateValues
RangeFrames ==
    { DataFrame(AllColumns, << Row("b", "0", d, "adv1") >>) :
        d \in RangeDateValues }
    \cup
    { DataFrame(AllColumns,
                << Row("b", "0", d1, "adv1"), Row("c", "TRUE", d2, "adv2") >>) :
        d1 \in RangeDateValues, d2 \in RangeDateValues }

\* batches that lack required columns: with rows that violate nothing, and
\* with rows that repeat an id and hold a future and an unparseable date
MissingColumnFrames ==
    { DataFrame(AllColumns \ missing, rows) :
        missing \in { {"id"}, {"branch_name"},
                      {"protected_class", "application_receive_date"} },
        rows \in { << Row("b", "0", "2010-06-15", "adv1") >>,
                   << Row("b", "0", "tomorrow", "adv1"),
                      Row("b", "0", "not a date", "adv1") >> } }

\* inputs without a record: a table of no rows, a table of no rows and no
\* columns, and a value that is no DataFrame
EmptyInputs == { DataFrame(AllColumns, << >>), DataFrame({}, << >>), NotADataFrame }

InputFrames == RangeFrames \cup MissingColumnFrames \cup EmptyInputs

\* estimated_unprotected_ratio in units of 1 / RateScale: negative, 0, in
\* (0,1] and above 1
InputRatios == (0 - 1) .. (RateScale + 1)

\* target_overall_rate = estimated_unprotected_ratio never lowers the
\* derived probability below 1
InputCalls ==
    { Args(df, NextBatchId, RateScale, e) : df \in InputFrames, e \in InputRatios }

\* One process: a first run that seeds the tables, then one call of
\* run_selection with any input and any eligible fraction.
NextInputs ==
    \/ /\ clock = 0
       /\ \E ok \in BOOLEAN, args \in Calls(SeedFrames) :
             setup_database("p1", args, ok)
       /\ UNCHANGED main_exit
    \/ /\ clock = 1
       /\ pc["p1"] = "done"
       /\ \E ok \in BOOLEAN, args \in InputCalls :
             setup_database("p1", args, ok)
       /\ UNCHANGED main_exit
    \/ /\ \E ok \in BOOLEAN :
             \E draws \in DrawsFor("p1") : select("p1", ok, draws)
       /\ UNCHANGED main_exit
    \/ /\ \E ok \in BOOLEAN : log_attempt("p1", ok)
       /\ UNCHANGED main_exit
    \/ /\ \E db_error \in BOOLEAN : save_selected_apps("p1", db_error)
       /\ UNCHANGED main_exit
    \/ /\ \E ok \in BOOLEAN : update_log("p1", ok)
       /\ UNCHANGED main_exit

SpecInputs == Init /\ [][NextInputs]_vars

\* -------------------------------------------------------------------- C33

\* every date of the rows is empty or a date-time whose calendar day is in
\* [2000-01-01, the day of the run]
DatesInRange(rows) ==
    \A i \in DOMAIN rows :
        \/ Strip(rows[i].application_receive_date) = ""
        \/ /\ ~ ParsedDate(rows[i]).isnull
           /\ ParsedDate(rows[i]).day >= MinAllowedDay
           /\ ParsedDate(rows[i]).day <= TodayDay

\* the try block of r's call ended in the raise of line 523
ValidationFailed(r) ==
    /\ run[r].status = "ERROR"
    /\ run[r].message.text = "Input data validation failed"

\* C33: a batch that violates nothing else is accepted when each of its
\* dates is empty or falls on a day from 2000-01-01 to the day of the run,
\* whatever its time of day, and is invalid when a date falls after the day
\* of the run or before 2000-01-01.
C33_DateRangeInclusive ==
    \A r \in Procs :
        ( /\ ValidationReached(r)
          /\ ~ EmptyIdPresent(run[r].input_df.rows)
          /\ DuplicatedIdsPresent(run[r].input_df.rows) = {} )
        => /\ DatesInRange(run[r].input_df.rows) => ~ ValidationFailed(r)
           /\ ( \/ FutureDatePresent(run[r].input_df.rows)
                \/ Pre2000DatePresent(run[r].input_df.rows) )
              => ValidationFailed(r)


\* -------------------------------------------------------------------- C34

\* the required columns that the batch of r's call lacks
AbsentColumns(r) == AllColumns \ run[r].input_df.columns

\* the message names the columns and nothing else
NamesColumns(msg, columns) ==
    /\ msg.text = "Missing required columns"
    /\ { msg.detail[i] : i \in DOMAIN msg.detail } = columns
    /\ msg.ids = <<>>
    /\ msg.counts = <<>>

\* C34 as stated: a run over a batch that lacks a required column chooses
\* nothing, owns no row of selected_applications and ends with an ERROR
\* Attempt in selection_log whose message names the absent columns and no
\* other violation.
C34_MissingColumnAlwaysLogged ==
    \A r \in Procs :
        AfterTry(r) /\ NonEmptyBatch(r) /\ AbsentColumns(r) # {} =>
            /\ run[r].final_selected_df = <<>>
            /\ RowsOf(r) = {}
            /\ (pc[r] = "done" =>
                  \E i \in AttemptsOf(r) :
                      /\ selection_log[i].status = "ERROR"
                      /\ NamesColumns(selection_log[i].message, AbsentColumns(r)))

\* C34, amended: a run over a non-empty batch that lacks a required column
\* chooses nothing, never reaches the save and owns no row of
\* selected_applications, and no step of it changes that table; when its
\* setup_database did not raise and its estimated_unprotected_ratio is in
\* (0,1], it ends the try block with status ERROR and a message that names
\* the absent columns and no violation of the rows; the Attempt it logs has
\* that status and message, unless the INSERT of log_attempt fails, and then
\* it logs no Attempt.
C34_MissingColumnFailsFirst ==
    /\ [] (\A r \in Procs :
             AfterTry(r) /\ NonEmptyBatch(r) /\ AbsentColumns(r) # {} =>
                 /\ run[r].final_selected_df = <<>>
                 /\ run[r].num_selected_for_this_batch = 0
                 /\ run[r].status = "ERROR"
                 /\ pc[r] \in {"log", "done"}
                 /\ RowsOf(r) = {}
                 /\ ( ~ SetupFailed(r)
                      /\ RateInRange(run[r].estimated_unprotected_ratio)
                      => /\ NamesColumns(run[r].message, AbsentColumns(r))
                         /\ (pc[r] = "done" /\ ~ run[r].log_error =>
                               /\ AttemptsOf(r) = {run[r].log_id}
                               /\ selection_log[run[r].log_id].status = "ERROR"
                               /\ selection_log[run[r].log_id].selected_count = 0
                               /\ NamesColumns(selection_log[run[r].log_id].message,
                                               AbsentColumns(r))) )
                 /\ (pc[r] = "done" /\ run[r].log_error => AttemptsOf(r) = {}))
    /\ [][ \A r \in Procs :
             ( /\ pc'[r] # pc[r]
               /\ NonEmptyBatch(r)'
               /\ AbsentColumns(r)' # {} )
             => selected_applications' = selected_applications ]_vars

\* A run over a batch that lacks two columns, and whose rows repeat an id and
\* hold a future and an unparseable date, has logged its ERROR Attempt, which
\* names the two columns only, while the table holds the row of an earlier
\* run.
C34_Witness ==
    /\ pc["p1"] = "done"
    /\ Cardinality(AbsentColumns("p1")) = 2
    /\ AnyViolationPresent(run["p1"].input_df.rows)
    /\ ~ run["p1"].log_error
    /\ selection_log[run["p1"].log_id].status = "ERROR"
    /\ NamesColumns(selection_log[run["p1"].log_id].message, AbsentColumns("p1"))
    /\ Len(selected_applications) = 1


\* -------------------------------------------------------------------- C35

\* line 468 was not executed in r's call: the local is as line 443 left it
NotDerived(r) == run[r].derived_probability_for_unprotected = <<0, 1>>

\* C35: a call of run_selection whose estimated_unprotected_ratio is 0 or
\* outside (0,1] ends its try block with status ERROR and without having
\* derived the probability; for a non-empty batch after a setup_database
\* that did not raise, the message is that of the ratio check. The call
\* chooses no record, never reaches the save, owns no row of
\* selected_applications, and no step of it changes that table.
C35_RatioRejectedBeforeDivision ==
    /\ [] (\A r \in Procs :
             AfterTry(r) /\ ~ RateInRange(run[r].estimated_unprotected_ratio) =>
                 /\ run[r].status = "ERROR"
                 /\ NotDerived(r)
                 /\ (NonEmptyBatch(r) /\ ~ SetupFailed(r) =>
                       run[r].message.text =
                          "Estimated unprotected ratio must be > 0 and <= 1.")
                 /\ run[r].final_selected_df = <<>>
                 /\ run[r].num_selected_for_this_batch = 0
                 /\ pc[r] \in {"log", "done"}
                 /\ RowsOf(r) = {})
    /\ [][ \A r \in Procs :
             ( /\ pc'[r] # pc[r]
               /\ ~ RateInRange(run'[r].estimated_unprotected_ratio) )
             => selected_applications' = selected_applications ]_vars

\* A call with estimated_unprotected_ratio 0 over a batch of an eligible
\* record that violates nothing has ended with the message of the ratio
\* check, while the table holds the row of an earlier run.
C35_Witness ==
    /\ pc["p1"] = "done"
    /\ run["p1"].estimated_unprotected_ratio = 0
    /\ NonEmptyBatch("p1")
    /\ AbsentColumns("p1") = {}
    /\ ~ AnyViolationPresent(run["p1"].input_df.rows)
    /\ DatesInRange(run["p1"].input_df.rows)
    /\ run["p1"].message.text = "Estimated unprotected ratio must be > 0 and <= 1."
    /\ NotDerived("p1")
    /\ run["p1"].final_selected_df = <<>>
    /\ Len(selected_applications) = 1


\* -------------------------------------------------------------------- C36

\* the input of r's call holds no record: it is no DataFrame, or a DataFrame
\* without rows or without columns
NoRecordGiven(r) ==
    \/ ~ run[r].input_df.is_dataframe
    \/ Len(run[r].input_df.rows) = 0
    \/ run[r].input_df.columns = {}

\* the Attempt is one of an ERROR run that chose nothing out of no record
EmptyAttempt(row) ==
    /\ row.status = "ERROR"
    /\ row.selected_count = 0
    /\ row.total_in_pool = 0

\* C36 as stated: a run given an input without records chooses nothing, owns
\* no row of selected_applications and ends with exactly one Attempt of its
\* batch in selection_log, which has status ERROR, selected_count 0 and
\* total_in_pool 0.
C36_EmptyBatchAlwaysLogged ==
    \A r \in Procs :
        AfterTry(r) /\ NoRecordGiven(r) =>
            /\ run[r].final_selected_df = <<>>
            /\ RowsOf(r) = {}
            /\ (pc[r] = "done" =>
                  /\ Cardinality(AttemptsOf(r)) = 1
                  /\ \A i \in AttemptsOf(r) : EmptyAttempt(selection_log[i]))

\* C36, amended: a run given an input without records ends its try block
\* with status ERROR, nothing chosen, no record counted, no skip counted and
\* no probability derived, and, when its setup_database did not raise, with
\* the message of the check of line 458 rather than one of validation; it
\* never reaches the save and owns no row of selected_applications, and no
\* step of it changes that table; it logs exactly one Attempt, with status
\* ERROR, selected_count 0 and total_in_pool 0, unless the INSERT of
\* log_attempt fails, and then it logs no Attempt.
C36_EmptyBatchRejected ==
    /\ [] (\A r \in Procs :
             AfterTry(r) /\ NoRecordGiven(r) =>
                 /\ run[r].status = "ERROR"
                 /\ run[r].final_selected_df = <<>>
                 /\ run[r].num_selected_for_this_batch = 0
                 /\ run[r].num_input_records = 0
                 /\ run[r].num_protected_skipped = 0
                 /\ run[r].num_previously_selected_skipped = 0
                 /\ run[r].num_passed_probability_gate = 0
                 /\ NotDerived(r)
                 /\ (~ SetupFailed(r) =>
                       run[r].message =
                          Message("Input data must be a non-empty pandas DataFrame.",
                                  <<>>, <<>>, <<>>))
                 /\ pc[r] \in {"log", "done"}
                 /\ RowsOf(r) = {}
                 /\ (pc[r] = "done" /\ ~ run[r].log_error =>
                       /\ AttemptsOf(r) = {run[r].log_id}
                       /\ EmptyAttempt(selection_log[run[r].log_id]))
                 /\ (pc[r] = "done" /\ run[r].log_error => AttemptsOf(r) = {}))
    /\ [][ \A r \in Procs :
             (pc'[r] # pc[r] /\ NoRecordGiven(r)')
             => selected_applications' = selected_applications ]_vars

\* A run given a DataFrame with every column and no row, and an
\* estimated_unprotected_ratio in (0,1], has logged its ERROR Attempt with
\* selected_count 0 and total_in_pool 0, while the table holds the row of an
\* earlier run.
C36_Witness ==
    /\ pc["p1"] = "done"
    /\ run["p1"].input_df.is_dataframe
    /\ run["p1"].input_df.columns = AllColumns
    /\ run["p1"].input_df.rows = <<>>
    /\ RateInRange(run["p1"].estimated_unprotected_ratio)
    /\ ~ run["p1"].log_error
    /\ AttemptsOf("p1") = {run["p1"].log_id}
    /\ EmptyAttempt(selection_log[run["p1"].log_id])
    /\ Len(selected_applications) = 1


\* ------------------------------------------- run_selection, step by step

\* lines 455-525: the history read and the checks before the loop; an
\* exception leads to the finally block, anything else to the loop
validate(r, read_ok) ==
    /\ pc[r] = "select"
    /\ LET V == try_before_loop(
                    [run[r] EXCEPT !.history_error =
                        ~ read_ok /\ PolicyIds(selected_applications) # {}],
                    get_previously_selected_policies(read_ok))
       IN IF V.raised
          THEN /\ run' = [run EXCEPT ![r] = V.locals]
               /\ pc' = [pc EXCEPT ![r] = "log"]
          ELSE /\ run' = [run EXCEPT ![r] = WithLoopGhosts(V.locals)]
               /\ pc' = [pc EXCEPT ![r] = "loop"]
    /\ UNCHANGED <<tables_exist, selection_log, selected_applications, clock,
                   main_exit>>

\* line 575: the try block has ended without an exception and the finally
\* block is entered
finally_entry(r) ==
    /\ pc[r] = "looped"
    /\ pc' = [pc EXCEPT ![r] = "log"]
    /\ UNCHANGED <<run, tables_exist, selection_log, selected_applications,
                   clock, main_exit>>

\* the batches of the second call: up to MaxRows records with unique ids,
\* the first one protected or not, a batch that repeats an id, and a table
\* without rows
StepFrames ==
    { DataFrame(AllColumns,
                [i \in 1 .. n |->
                    Row(PermIds[i], IF i = 1 THEN first ELSE "0",
                        "2010-06-15", "adv1")]) :
        n \in { m \in 1 .. MaxRows : m <= Len(PermIds) },
        first \in {"0", "TRUE"} }
    \cup { DataFrame(AllColumns,
                     << Row("a", "0", "2010-06-15", "adv1"),
                        Row("a", "0", "2010-06-15", "adv1") >>),
           DataFrame(AllColumns, << >>) }

\* a step of r's call after setup_database: each is a statement of a
\* sequential function, and each call to sqlite3 returns or raises
RunStep(r) ==
    \/ \E ok \in BOOLEAN : validate(r, ok)
    \/ \E draw \in Draws : loop_step(r, draw)
    \/ loop_end(r)
    \/ finally_entry(r)
    \/ /\ \E ok \in BOOLEAN : log_attempt(r, ok)
       /\ UNCHANGED main_exit
    \/ /\ \E db_error \in BOOLEAN : save_selected_apps(r, db_error)
       /\ UNCHANGED main_exit
    \/ /\ \E ok \in BOOLEAN : update_log(r, ok)
       /\ UNCHANGED main_exit

\* One process: a first call that seeds the tables, then a call over any
\* batch of StepFrames, each call taken statement by statement and the loop
\* row by row.
NextRunSteps ==
    \/ /\ clock = 0
       /\ \E ok \in BOOLEAN, args \in Calls(SeedFrames) :
             setup_database("p1", args, ok)
       /\ UNCHANGED main_exit
    \/ /\ clock = 1
       /\ pc["p1"] = "done"
       /\ \E ok \in BOOLEAN, df \in StepFrames, target \in 1 .. RateScale :
             setup_database("p1", Args(df, NextBatchId, target, RateScale), ok)
       /\ UNCHANGED main_exit
    \/ RunStep("p1")

SpecRunSteps == Init /\ [][NextRunSteps]_vars

\* The same with the scheduling of a sequential program: a call that can
\* take a step takes one.
SpecTermination == SpecRunSteps /\ WF_vars(RunStep("p1"))

\* -------------------------------------------------------------------- C37

\* the number of rows the loop of r's call has been through
Examined(L) == IF "examined" \in DOMAIN L THEN L.examined ELSE 0

\* r's call is between its setup_database and its return
InCall(r) == pc[r] \in {"select", "loop", "looped", "log", "save", "update"}

\* r's call has returned: with its one Attempt in selection_log, status
\* SUCCESS or ERROR, and the value True, or without an Attempt and with the
\* value False
Returned(r) ==
    /\ pc[r] = "done"
    /\ IF run_selection_return(run[r])
       THEN /\ AttemptsOf(r) = {run[r].log_id}
            /\ selection_log[run[r].log_id].status \in {"SUCCESS", "ERROR"}
       ELSE /\ run[r].log_error
            /\ AttemptsOf(r) = {}

\* C37: every call of run_selection that has started reaches its return,
\* with its Attempt written, status SUCCESS or ERROR, or with the value
\* that reports that the Attempt could not be written; each pass of the
\* loop moves on by one row, the loop never goes beyond the last row, and a
\* call whose loop has ended has been through each row of the batch once.
C37_Termination ==
    /\ \A r \in Procs : InCall(r) ~> Returned(r)
    /\ [] (\A r \in Procs :
             /\ Examined(run[r]) <= Len(run[r].input_df.rows)
             /\ (/\ pc[r] \in {"looped", "log", "save", "update", "done"}
                 /\ run[r].message.text = "Processed"
                 => Examined(run[r]) = Len(run[r].input_df.rows)))
    /\ [][ \A r \in Procs :
             pc[r] = "loop" /\ pc'[r] = "loop" /\ run'[r] # run[r]
             => Examined(run'[r]) = Examined(run[r]) + 1 ]_vars

\* A call over a batch of three records has been through the three, chosen
\* one, saved it and returned with its SUCCESS Attempt written.
C37_Witness ==
    /\ Returned("p1")
    /\ Len(run["p1"].input_df.rows) = 3
    /\ Examined(run["p1"]) = 3
    /\ run["p1"].num_selected_for_this_batch = 1
    /\ run["p1"].save_successful
    /\ selection_log[run["p1"].log_id].status = "SUCCESS"

====
